---- MODULE Spec2Model ----
(***************************************************************************)
(* Model of the SSH authentication-log parser, app/lib/ssh_log_parser.py.  *)
(*                                                                         *)
(* Text is modelled as TLA+ strings, character by character: Ch(s, i) is   *)
(* the i-th character (1-based) and every regular expression of the source *)
(* is an operator that scans the string the way the backtracking matcher   *)
(* does (greedy quantifiers take the longest run first, a lazy one the     *)
(* shortest, search() returns the leftmost match).                         *)
(*                                                                         *)
(* A Python value that may be None, or a call that may raise, is a record  *)
(* with a field kind: "None", "raise", or the kind of the value.           *)
(***************************************************************************)
EXTENDS Integers, Sequences, FiniteSets, TLC

VARIABLES
    pc,         \* position of the modelled caller: "start" or "done"
    ts_args,    \* arguments of a call of parse_syslog_timestamp_from_parts
    ts_result,  \* its result
    message,    \* argument of a call of classify_and_extract
    details,    \* its result
    line,       \* argument of a call of parse_line
    year,       \* default_year of that call (and of parse_log_file)
    result,     \* result of parse_line
    file,       \* the lines of the input file of parse_log_file
    default_year, \* the default_year argument of parse_log_file (None: omitted)
    clock,      \* the year of the wall clock, datetime.now().year
    gen,        \* the generator parse_log_file returned: "created", "open", "closed"
    pos,        \* number of lines the generator has read
    records,    \* records the generator has yielded to its consumer
    previous,   \* year and records of the previous, complete iteration
    called_at,  \* the year of the wall clock when parse_log_file was called
    readable,   \* whether open(path) of the input file succeeds
    csv,        \* the output file of write_csv
    wpc,        \* position of write_csv: "idle", "called", "iterating", "done", "failed"
    error,      \* the exception that reached the caller of write_csv
    raw,        \* the bytes of a line of the input file
    table,      \* what pd.read_csv made of the text of a CSV file
    svc,        \* the service: its files, app.state and the last response
    sql         \* the sql_query tool: its connection, the query and the answer

vars == <<pc, ts_args, ts_result, message, details, line, year, result,
          file, default_year, clock, gen, pos, records, previous, called_at,
          readable, csv, wpc, error, raw, table, svc, sql>>

\* the state of parse_log_file, which the calls of the pure functions leave alone
file_vars == <<file, default_year, clock, gen, pos, records, previous, called_at>>

\* the state of write_csv and of its caller
pipe_vars == <<readable, csv, wpc, error>>

\* the state a call of the parser does not touch: the bytes decoded, the
\* table loaded, the service and the SQL tool
rest_vars == <<raw, table, svc, sql>>

-----------------------------------------------------------------------------
(* Strings and characters *)

Ch(s, i) == SubSeq(s, i, i)

\* s[from0:] of Python (0-based, from0 >= 0)
SliceFrom(s, from0) == SubSeq(s, from0 + 1, Len(s))

Min(S) == CHOOSE x \in S : \A y \in S : x <= y
Max(S) == CHOOSE x \in S : \A y \in S : x >= y

DigitChars == {"0", "1", "2", "3", "4", "5", "6", "7", "8", "9"}
UpperChars == {"A", "B", "C", "D", "E", "F", "G", "H", "I", "J", "K", "L", "M",
               "N", "O", "P", "Q", "R", "S", "T", "U", "V", "W", "X", "Y", "Z"}
LowerChars == {"a", "b", "c", "d", "e", "f", "g", "h", "i", "j", "k", "l", "m",
               "n", "o", "p", "q", "r", "s", "t", "u", "v", "w", "x", "y", "z"}
\* \s of a str pattern (the ASCII part of it)
SpaceChars == {" ", "\t", "\n", "\r", "\f"}
\* \w of a str pattern (the ASCII part of it)
WordChars == DigitChars \cup UpperChars \cup LowerChars \cup {"_"}

IsDigit(c) == c \in DigitChars
IsSpace(c) == c \in SpaceChars
IsNonSpace(c) == c \notin SpaceChars
\* what "." does not match, without re.DOTALL
LineBreaks == {"\n"}

Upper2Lower ==
    "A" :> "a" @@ "B" :> "b" @@ "C" :> "c" @@ "D" :> "d" @@ "E" :> "e" @@
    "F" :> "f" @@ "G" :> "g" @@ "H" :> "h" @@ "I" :> "i" @@ "J" :> "j" @@
    "K" :> "k" @@ "L" :> "l" @@ "M" :> "m" @@ "N" :> "n" @@ "O" :> "o" @@
    "P" :> "p" @@ "Q" :> "q" @@ "R" :> "r" @@ "S" :> "s" @@ "T" :> "t" @@
    "U" :> "u" @@ "V" :> "v" @@ "W" :> "w" @@ "X" :> "x" @@ "Y" :> "y" @@
    "Z" :> "z"

\* case folding of re.IGNORECASE
Fold(c) == IF c \in UpperChars THEN Upper2Lower[c] ELSE c

\* the literal lit occurs in s at position i
LitAt(s, i, lit) ==
    /\ i >= 1
    /\ i + Len(lit) - 1 <= Len(s)
    /\ \A k \in 1..Len(lit) : Ch(s, i + k - 1) = Ch(lit, k)

\* the same under re.IGNORECASE (lit is written in lower case)
LitAtIgnoreCase(s, i, lit) ==
    /\ i >= 1
    /\ i + Len(lit) - 1 <= Len(s)
    /\ \A k \in 1..Len(lit) : Fold(Ch(s, i + k - 1)) = Ch(lit, k)

\* first position >= i whose character is not in chars (Len(s)+1 if none):
\* the end of the longest run a greedy [chars]* takes from i
RunEnd(s, i, chars) ==
    Min({j \in i..Len(s) : Ch(s, j) \notin chars} \cup {Len(s) + 1})

\* first position >= i whose character is in stops (Len(s)+1 if none): the
\* end of the longest run a greedy [^stops]* takes from i
RunEndBefore(s, i, stops) ==
    Min({j \in i..Len(s) : Ch(s, j) \in stops} \cup {Len(s) + 1})

DigitVal ==
    "0" :> 0 @@ "1" :> 1 @@ "2" :> 2 @@ "3" :> 3 @@ "4" :> 4 @@
    "5" :> 5 @@ "6" :> 6 @@ "7" :> 7 @@ "8" :> 8 @@ "9" :> 9

RECURSIVE DecimalValue(_)
DecimalValue(s) ==
    IF Len(s) = 0 THEN 0
    ELSE 10 * DecimalValue(SubSeq(s, 1, Len(s) - 1)) + DigitVal[Ch(s, Len(s))]

\* CPython's limit on the number of digits int() converts (sys.int_info
\* default_max_str_digits); a longer digit string raises ValueError
MaxStrDigits == 4300

\* int(s) for a string without surrounding white space
PyInt(s) ==
    IF Len(s) = 0 \/ \E k \in 1..Len(s) : ~IsDigit(Ch(s, k))
    THEN [kind |-> "raise", exc |-> "ValueError"]
    ELSE IF Len(s) > MaxStrDigits
    THEN [kind |-> "raise", exc |-> "ValueError"]
    ELSE [kind |-> "int", value |-> DecimalValue(s)]

\* str.strip(): white space removed at both ends
Strip(s) ==
    LET keep == {k \in 1..Len(s) : IsNonSpace(Ch(s, k))}
    IN  IF keep = {} THEN "" ELSE SubSeq(s, Min(keep), Max(keep))

\* str.rstrip(): all trailing white space removed, which is what the parser
\* would keep of a line had it called rstrip() without an argument
RStripWhitespace(s) ==
    LET keep == {k \in 1..Len(s) : IsNonSpace(Ch(s, k))}
    IN  IF keep = {} THEN "" ELSE SubSeq(s, 1, Max(keep))

\* str.rstrip("\n"): every trailing newline removed
RStripNewlines(s) ==
    LET keep == {k \in 1..Len(s) : Ch(s, k) # "\n"}
    IN  IF keep = {} THEN "" ELSE SubSeq(s, 1, Max(keep))

\* str.find(sub): 0-based index of the first occurrence, -1 if none
PyFind(s, sub) ==
    LET hits == {i \in 1..Len(s) : LitAt(s, i, sub)}
    IN  IF hits = {} THEN -1 ELSE Min(hits) - 1

DigitChr(d) == Ch("0123456789", d + 1)

RECURSIVE FormatNat(_)
FormatNat(n) ==
    IF n < 10 THEN DigitChr(n) ELSE FormatNat(n \div 10) \o DigitChr(n % 10)

\* f"{n}"
FormatInt(n) == IF n < 0 THEN "-" \o FormatNat(0 - n) ELSE FormatNat(n)

\* f"{n:02d}"
Format02d(n) == IF 0 <= n /\ n < 10 THEN "0" \o FormatNat(n) ELSE FormatInt(n)

-----------------------------------------------------------------------------
(* The calendar of datetime *)

MONTHS ==
    "Jan" :> 1 @@ "Feb" :> 2 @@ "Mar" :> 3 @@ "Apr" :> 4 @@ "May" :> 5 @@
    "Jun" :> 6 @@ "Jul" :> 7 @@ "Aug" :> 8 @@ "Sep" :> 9 @@ "Oct" :> 10 @@
    "Nov" :> 11 @@ "Dec" :> 12

IsLeap(y) == y % 4 = 0 /\ (y % 100 # 0 \/ y % 400 = 0)

DaysInMonth(y, m) ==
    IF m = 2 THEN (IF IsLeap(y) THEN 29 ELSE 28)
    ELSE IF m \in {4, 6, 9, 11} THEN 30 ELSE 31

\* the range checks of the datetime constructor
DatetimeOk(y, m, d, hh, mm, ss) ==
    /\ 1 <= y /\ y <= 9999
    /\ 1 <= m /\ m <= 12
    /\ 1 <= d /\ d <= DaysInMonth(y, m)
    /\ 0 <= hh /\ hh <= 23
    /\ 0 <= mm /\ mm <= 59
    /\ 0 <= ss /\ ss <= 59

\* A directive of strptime is an alternation of one- and two-character
\* alternatives, tried in the order written; each is followed by a literal
\* that no digit matches, so the first alternative that matches is the one
\* kept.  Each operator gives the number of characters taken, 0 for no match.
In(s, i, chars) == i >= 1 /\ i <= Len(s) /\ Ch(s, i) \in chars

\* %Y: \d\d\d\d
DirectiveYear(s, i) ==
    IF \A k \in 0..3 : In(s, i + k, DigitChars) THEN 4 ELSE 0

\* %m: 1[0-2]|0[1-9]|[1-9]
DirectiveMonth(s, i) ==
    IF In(s, i, {"1"}) /\ In(s, i + 1, {"0", "1", "2"}) THEN 2
    ELSE IF In(s, i, {"0"}) /\ In(s, i + 1, DigitChars \ {"0"}) THEN 2
    ELSE IF In(s, i, DigitChars \ {"0"}) THEN 1
    ELSE 0

\* %d: 3[0-1]|[1-2]\d|0[1-9]|[1-9]| [1-9]
DirectiveDay(s, i) ==
    IF In(s, i, {"3"}) /\ In(s, i + 1, {"0", "1"}) THEN 2
    ELSE IF In(s, i, {"1", "2"}) /\ In(s, i + 1, DigitChars) THEN 2
    ELSE IF In(s, i, {"0"}) /\ In(s, i + 1, DigitChars \ {"0"}) THEN 2
    ELSE IF In(s, i, DigitChars \ {"0"}) THEN 1
    ELSE IF In(s, i, {" "}) /\ In(s, i + 1, DigitChars \ {"0"}) THEN 2
    ELSE 0

\* %H: 2[0-3]|[0-1]\d|\d
DirectiveHour(s, i) ==
    IF In(s, i, {"2"}) /\ In(s, i + 1, {"0", "1", "2", "3"}) THEN 2
    ELSE IF In(s, i, {"0", "1"}) /\ In(s, i + 1, DigitChars) THEN 2
    ELSE IF In(s, i, DigitChars) THEN 1
    ELSE 0

\* %M: [0-5]\d|\d
DirectiveMinute(s, i) ==
    IF In(s, i, {"0", "1", "2", "3", "4", "5"}) /\ In(s, i + 1, DigitChars) THEN 2
    ELSE IF In(s, i, DigitChars) THEN 1
    ELSE 0

\* %S: 6[0-1]|[0-5]\d|\d
DirectiveSecond(s, i) ==
    IF In(s, i, {"6"}) /\ In(s, i + 1, {"0", "1"}) THEN 2
    ELSE IF In(s, i, {"0", "1", "2", "3", "4", "5"}) /\ In(s, i + 1, DigitChars) THEN 2
    ELSE IF In(s, i, DigitChars) THEN 1
    ELSE 0

ValueError == [kind |-> "raise", exc |-> "ValueError"]

\* The state of strptime's match: pos is the position reached in the string,
\* 0 once the format has failed to match; the other fields are the values of
\* the directives matched so far.
StrptimeStart == [pos |-> 1, Y |-> 0, m |-> 0, d |-> 0, H |-> 0, M |-> 0, S |-> 0]

StrptimeFail(st) == [st EXCEPT !.pos = 0]

\* a directive that took n characters at st.pos and is the field called name
Field(s, st, name, n) ==
    IF st.pos = 0 \/ n = 0 THEN StrptimeFail(st)
    ELSE [st EXCEPT !.pos = @ + n,
                    ![name] = DecimalValue(Strip(SubSeq(s, st.pos, st.pos + n - 1)))]

\* a literal character of the format
Literal(s, st, lit) ==
    IF st.pos # 0 /\ LitAt(s, st.pos, lit) THEN [st EXCEPT !.pos = @ + Len(lit)]
    ELSE StrptimeFail(st)

\* white space of the format: \s+
SpacesTo(st, wsend) ==
    IF st.pos # 0 /\ wsend > st.pos THEN [st EXCEPT !.pos = wsend]
    ELSE StrptimeFail(st)

Spaces(s, st) == SpacesTo(st, IF st.pos = 0 THEN 0 ELSE RunEnd(s, st.pos, SpaceChars))

FieldYear(s, st) == Field(s, st, "Y", DirectiveYear(s, st.pos))
FieldMonth(s, st) == Field(s, st, "m", DirectiveMonth(s, st.pos))
FieldDay(s, st) == Field(s, st, "d", DirectiveDay(s, st.pos))
FieldHour(s, st) == Field(s, st, "H", DirectiveHour(s, st.pos))
FieldMinute(s, st) == Field(s, st, "M", DirectiveMinute(s, st.pos))
FieldSecond(s, st) == Field(s, st, "S", DirectiveSecond(s, st.pos))

\* the end of strptime: ValueError when the format did not match, when data
\* remains unconverted and when the fields are no date and time
StrptimeResult(s, st) ==
    IF st.pos = 0 THEN ValueError
    ELSE IF st.pos # Len(s) + 1 THEN ValueError
    ELSE IF DatetimeOk(st.Y, st.m, st.d, st.H, st.M, st.S)
    THEN [kind |-> "datetime", year |-> st.Y, month |-> st.m, day |-> st.d,
          hour |-> st.H, minute |-> st.M, second |-> st.S]
    ELSE ValueError

\* datetime.strptime(s, "%Y-%m-%d %H:%M:%S")
Strptime(s) ==
    LET s1 == FieldYear(s, StrptimeStart)
        s2 == FieldMonth(s, Literal(s, s1, "-"))
        s3 == FieldDay(s, Literal(s, s2, "-"))
        s4 == FieldHour(s, Spaces(s, s3))
        s5 == FieldMinute(s, Literal(s, s4, ":"))
        s6 == FieldSecond(s, Literal(s, s5, ":"))
    IN  StrptimeResult(s, s6)

\* dt.strftime("%Y-%m-%d %H:%M:%S")
Strftime(dt) ==
    FormatInt(dt.year) \o "-" \o Format02d(dt.month) \o "-" \o Format02d(dt.day)
        \o " " \o Format02d(dt.hour) \o ":" \o Format02d(dt.minute)
        \o ":" \o Format02d(dt.second)

NoneValue == [kind |-> "None"]

\* return dt.strftime(...), unless strptime raised
FormatParsed(dt) ==
    IF dt.kind = "raise" THEN dt ELSE [kind |-> "str", value |-> Strftime(dt)]

\* the timestamp composed by formatting alone, without strptime to validate it
ComposeUnchecked(month, day, time_str, the_year) ==
    IF day.kind = "raise" THEN day
    ELSE [kind |-> "str",
          value |-> FormatInt(the_year) \o "-" \o Format02d(month)
                    \o "-" \o Format02d(day.value) \o " " \o time_str]

\* dt = datetime.strptime(f"{default_year}-{month:02d}-{day:02d} {time_str}", ...),
\* unless int() raised
ComposeAndParse(month, day, time_str, the_year) ==
    IF day.kind = "raise" THEN day
    ELSE FormatParsed(Strptime(FormatInt(the_year) \o "-" \o Format02d(month)
                               \o "-" \o Format02d(day.value) \o " " \o time_str))

\* the body of the try statement of parse_syslog_timestamp_from_parts
TimestampTryBody(month, day_str, time_str, the_year) ==
    ComposeAndParse(month, PyInt(Strip(day_str)), time_str, the_year)

\* the try statement without its except clause: the exception leaves the function
PropagateException(r) == r

\* except Exception: return None
NoneOnException(r) == IF r.kind = "raise" THEN NoneValue ELSE r

parse_syslog_timestamp_from_parts(month_abbr, day_str, time_str, the_year) ==
    IF month_abbr \notin DOMAIN MONTHS THEN NoneValue
    ELSE NoneOnException(
             TimestampTryBody(MONTHS[month_abbr], day_str, time_str, the_year))

-----------------------------------------------------------------------------
(* The regular expressions *)

NoMatch == [kind |-> "None"]

\* the positions of s: where re.search tries a pattern, from the left
Positions(s) == 1..Len(s)

\* the alternation of month names of TIMESTAMP_PREFIX_RE
MonthAlternatives == {"Jan", "Feb", "Mar", "Apr", "May", "Jun",
                      "Jul", "Aug", "Sep", "Oct", "Nov", "Dec"}

\* [0-9]{2}:[0-9]{2}:[0-9]{2} at position i
TimeAt(s, i) ==
    /\ i + 7 <= Len(s)
    /\ \A k \in {0, 1, 3, 4, 6, 7} : IsDigit(Ch(s, i + k))
    /\ Ch(s, i + 2) = ":"
    /\ Ch(s, i + 5) = ":"

\* [ 0-9]
DayChars == DigitChars \cup {" "}

\* every character of s[i .. i+n-1] is in chars
AllIn(s, i, n, chars) ==
    i + n - 1 <= Len(s) /\ \A k \in i..(i + n - 1) : Ch(s, k) \in chars

\* the lengths \s+ can take at position i
SpaceRuns(s, i) == 1..(RunEnd(s, i, SpaceChars) - i)

\* (.*)$ at position i: (.*) takes no newline, and $ is the end of s or the
\* place before a newline that ends s
RestEnd(s, i) == RunEndBefore(s, i, LineBreaks)
RestOk(s, i) == RestEnd(s, i) >= Len(s)

\* The ways TIMESTAMP_PREFIX_RE matches s: <<a, d, b, c>> are the lengths of
\* the first \s+, of the day, of the second \s+ and of the third \s+.
WaysAfterTime(s, i) == {<<c>> : c \in {c \in SpaceRuns(s, i) : RestOk(s, i + c)}}

WaysAfterDay(s, i) ==
    UNION { {<<b>> \o w : w \in WaysAfterTime(s, i + b + 8)} :
            b \in {b \in SpaceRuns(s, i) : TimeAt(s, i + b)} }

WaysAfterSpace(s, i) ==
    UNION { {<<d>> \o w : w \in WaysAfterDay(s, i + d)} :
            d \in {d \in 1..2 : AllIn(s, i, d, DayChars)} }

WaysAfterMonth(s, i) ==
    UNION { {<<a>> \o w : w \in WaysAfterSpace(s, i + a)} : a \in SpaceRuns(s, i) }

\* p is tried before q by the backtracking matcher: the quantifiers are greedy,
\* so the longer run of the leftmost quantifier that differs comes first
TriedBefore(p, q) ==
    \E k \in 1..Len(p) : p[k] > q[k] /\ \A j \in 1..(k - 1) : p[j] = q[j]

FirstTried(ways) == CHOOSE p \in ways : \A q \in ways \ {p} : TriedBefore(p, q)

\* the groups of the match that takes a, d, b and c characters
PrefixGroups(s, a, d, b, c) ==
    [kind |-> "match",
     month |-> SubSeq(s, 1, 3),
     day |-> SubSeq(s, 4 + a, 4 + a + d - 1),
     time |-> SubSeq(s, 4 + a + d + b, 4 + a + d + b + 7),
     rest |-> SubSeq(s, 4 + a + d + b + 8 + c, RestEnd(s, 4 + a + d + b + 8 + c) - 1)]

PrefixFirstWay(s, w) == PrefixGroups(s, w[1], w[2], w[3], w[4])

PrefixMatch(s, ways) == IF ways = {} THEN NoMatch ELSE PrefixFirstWay(s, FirstTried(ways))

\* TIMESTAMP_PREFIX_RE.match(s):
\*   ^(Jan|...|Dec)\s+([ 0-9]{1,2})\s+([0-9]{2}:[0-9]{2}:[0-9]{2})\s+(.*)$
TIMESTAMP_PREFIX_RE(s) ==
    IF Len(s) < 3 \/ SubSeq(s, 1, 3) \notin MonthAlternatives THEN NoMatch
    ELSE PrefixMatch(s, WaysAfterMonth(s, 4))

\* the "]" (.+)\] can end at, when (.+) starts at position i
Closers(s, i) == {j \in (i + 1)..(RunEndBefore(s, i, LineBreaks) - 1) : Ch(s, j) = "]"}

\* \[(.+)\]: (.+) is greedy and runs to the last "]" before a newline
WrapperInner(s, pdig, dend, pin, closers) ==
    IF closers = {} THEN NoMatch
    ELSE [kind |-> "match",
          group1 |-> SubSeq(s, pdig, dend - 1),
          group2 |-> SubSeq(s, pin, Max(closers) - 1)]

\* (\d+) times: \[ : \d+ takes the whole run of digits (" times" follows)
WrapperCount(s, pdig, dend) ==
    IF dend > pdig /\ LitAt(s, dend, " times: [")
    THEN WrapperInner(s, pdig, dend, dend + Len(" times: ["),
                      Closers(s, dend + Len(" times: [")))
    ELSE NoMatch

\* REPEATED_WRAPPER_RE at position i: message repeated (\d+) times: \[(.+)\]
WrapperAt(s, i) ==
    IF LitAt(s, i, "message repeated ")
    THEN WrapperCount(s, i + Len("message repeated "),
                      RunEnd(s, i + Len("message repeated "), DigitChars))
    ELSE NoMatch

\* the match at the leftmost position that has one
FirstWrapper(s, hits) == IF hits = {} THEN NoMatch ELSE WrapperAt(s, Min(hits))

\* REPEATED_WRAPPER_RE.search(s)
REPEATED_WRAPPER_RE(s) == FirstWrapper(s, {i \in Positions(s) : WrapperAt(s, i).kind = "match"})

\* \d{1,3} at position i: the digits taken, at most three
AtMost3(n) == IF n > 3 THEN 3 ELSE n

OctetLen(s, i) == IF i < 1 THEN 0 ELSE AtMost3(RunEnd(s, i, DigitChars) - i)

\* \d{1,3}\. at position i: the position after it, 0 for no match.  The
\* digits must be followed by ".", so at most three of them are there.
AfterOctetDot(s, i, n) == IF n > 0 /\ LitAt(s, i + n, ".") THEN i + n + 1 ELSE 0

OctetDot(s, i) == AfterOctetDot(s, i, OctetLen(s, i))

\* the last \d{1,3}: up to three digits, whatever follows
AfterLastOctet(i, n) == IF n > 0 THEN i + n ELSE 0

LastOctet(s, i) == AfterLastOctet(i, OctetLen(s, i))

\* \d{1,3}(?:\.\d{1,3}){3} at position i: the position after the address, 0
\* for no match
IpEnd(s, i) == LastOctet(s, OctetDot(s, OctetDot(s, OctetDot(s, i))))

UserIp(s, i, uend, pip, ipend) ==
    IF ipend # 0
    THEN [kind |-> "match",
          username |-> SubSeq(s, i, uend - 1),
          ip |-> SubSeq(s, pip, ipend - 1)]
    ELSE NoMatch

UserFrom(s, i, uend) ==
    IF uend > i /\ LitAt(s, uend, " from ")
    THEN UserIp(s, i, uend, uend + Len(" from "), IpEnd(s, uend + Len(" from ")))
    ELSE NoMatch

\* (?P<username>\S+) from (?P<ip>\d{1,3}(?:\.\d{1,3}){3}) at position i
\* \S+ takes the whole run of non-space characters (" from" follows).
UserFromIpAt(s, i) ==
    IF i > Len(s) THEN NoMatch ELSE UserFrom(s, i, RunEndBefore(s, i, SpaceChars))

\* (invalid user )? and what follows it, at position i
WithInvalidUser(s, i) ==
    IF LitAt(s, i, "invalid user ")
    THEN UserFromIpAt(s, i + Len("invalid user "))
    ELSE NoMatch

\* the optional group is tried first, and given up when the rest fails
FailedPasswordGroups(withGroup, without) ==
    IF withGroup.kind = "match"
    THEN [kind |-> "match", group1 |-> TRUE,
          username |-> withGroup.username, ip |-> withGroup.ip]
    ELSE IF without.kind = "match"
    THEN [kind |-> "match", group1 |-> FALSE,
          username |-> without.username, ip |-> without.ip]
    ELSE NoMatch

\* FAILED_PASSWORD_RE at position i:
\*   Failed password for (invalid user )?(?P<username>\S+) from (?P<ip>...)
FailedPasswordAt(s, i) ==
    IF ~LitAt(s, i, "Failed password for ") THEN NoMatch
    ELSE FailedPasswordGroups(
             WithInvalidUser(s, i + Len("Failed password for ")),
             UserFromIpAt(s, i + Len("Failed password for ")))

\* the match at the leftmost position that has one
FirstFailedPassword(s, hits) == IF hits = {} THEN NoMatch ELSE FailedPasswordAt(s, Min(hits))

\* FAILED_PASSWORD_RE.search(s)
FAILED_PASSWORD_RE(s) == FirstFailedPassword(s, {i \in Positions(s) : FailedPasswordAt(s, i).kind = "match"})

\* INVALID_USER_RE at position i: Invalid user (?P<username>\S+) from (?P<ip>...)
InvalidUserAt(s, i) ==
    IF LitAt(s, i, "Invalid user ")
    THEN UserFromIpAt(s, i + Len("Invalid user "))
    ELSE NoMatch

\* the match at the leftmost position that has one
FirstInvalidUser(s, hits) == IF hits = {} THEN NoMatch ELSE InvalidUserAt(s, Min(hits))

\* INVALID_USER_RE.search(s)
INVALID_USER_RE(s) == FirstInvalidUser(s, {i \in Positions(s) : InvalidUserAt(s, i).kind = "match"})

\* [\w\.-]
HostChars == WordChars \cup {".", "-"}

\* (?P<username>\S+): the whole run of non-space characters
UserRun(s, pip, ipend, pu, uend) ==
    IF uend > pu
    THEN [kind |-> "match",
          username |-> SubSeq(s, pu, uend - 1),
          ip |-> SubSeq(s, pip, ipend - 1)]
    ELSE NoMatch

\* \s+user= : \s+ takes the whole run of white space ("user=" follows)
SpacesThenUser(s, pip, ipend, wsend) ==
    IF wsend > ipend /\ LitAtIgnoreCase(s, wsend, "user=")
    THEN UserRun(s, pip, ipend, wsend + Len("user="),
                 RunEndBefore(s, wsend + Len("user="), SpaceChars))
    ELSE NoMatch

\* (?P<ip>[\w\.-]+?): the lazy host stops where white space begins
HostThenUser(s, pip, ipend) ==
    IF ipend > pip THEN SpacesThenUser(s, pip, ipend, RunEnd(s, ipend, SpaceChars))
    ELSE NoMatch

\* rhost=(?P<ip>[\w\.-]+?)\s+user=(?P<username>\S+) at position r, under
\* re.IGNORECASE
RhostUserAt(s, r) ==
    IF LitAtIgnoreCase(s, r, "rhost=")
    THEN HostThenUser(s, r + Len("rhost="), RunEnd(s, r + Len("rhost="), HostChars))
    ELSE NoMatch

\* .*? is lazy: it stops at the first "rhost=" from which the rest matches,
\* and takes no newline
FirstRhost(s, hits) == IF hits = {} THEN NoMatch ELSE RhostUserAt(s, Min(hits))

\* PAM_AUTH_FAILURE_RE at position i, under re.IGNORECASE:
\*   authentication failure;.*?rhost=(?P<ip>[\w\.-]+?)\s+user=(?P<username>\S+)
PamAuthFailureAt(s, i) ==
    IF LitAtIgnoreCase(s, i, "authentication failure;")
    THEN FirstRhost(s, {r \in (i + Len("authentication failure;"))
                               ..RunEndBefore(s, i + Len("authentication failure;"), LineBreaks) :
                          RhostUserAt(s, r).kind = "match"})
    ELSE NoMatch

\* the match at the leftmost position that has one
FirstPamAuthFailure(s, hits) == IF hits = {} THEN NoMatch ELSE PamAuthFailureAt(s, Min(hits))

\* PAM_AUTH_FAILURE_RE.search(s)
PAM_AUTH_FAILURE_RE(s) == FirstPamAuthFailure(s, {i \in Positions(s) : PamAuthFailureAt(s, i).kind = "match"})

-----------------------------------------------------------------------------
(* The stages of the parser *)

\* m.groups() as the dict split_prefix_and_message returns
PartsOf(m) ==
    IF m.kind # "match" THEN NoneValue
    ELSE [kind |-> "dict", month |-> m.month, day |-> m.day,
          time |-> m.time, rest |-> m.rest]

\* the prefix matched on the line with its white space stripped first
SplitStripped(ln) == PartsOf(TIMESTAMP_PREFIX_RE(Strip(ln)))

split_prefix_and_message(ln) == PartsOf(TIMESTAMP_PREFIX_RE(ln))

\* the rules tried in another order: invalid-user before failed-password
InvalidUserFirst(m1, m2, m3) ==
    IF m2.kind = "match"
    THEN [kind |-> "dict", event_type |-> "INVALID_USER",
          username |-> m2.username, ip_address |-> m2.ip]
    ELSE IF m1.kind = "match"
    THEN [kind |-> "dict",
          event_type |-> IF m1.group1 THEN "FAILED_LOGIN_INVALID_USER"
                         ELSE "FAILED_LOGIN",
          username |-> m1.username, ip_address |-> m1.ip]
    ELSE IF m3.kind = "match"
    THEN [kind |-> "dict", event_type |-> "PAM_AUTH_FAILURE",
          username |-> m3.username, ip_address |-> m3.ip]
    ELSE [kind |-> "None"]

\* the result of the first rule that matched
FirstMatch(m1, m2, m3) ==
    IF m1.kind = "match"
    THEN [kind |-> "dict",
          event_type |-> IF m1.group1 THEN "FAILED_LOGIN_INVALID_USER"
                         ELSE "FAILED_LOGIN",
          username |-> m1.username, ip_address |-> m1.ip]
    ELSE IF m2.kind = "match"
    THEN [kind |-> "dict", event_type |-> "INVALID_USER",
          username |-> m2.username, ip_address |-> m2.ip]
    ELSE IF m3.kind = "match"
    THEN [kind |-> "dict", event_type |-> "PAM_AUTH_FAILURE",
          username |-> m3.username, ip_address |-> m3.ip]
    ELSE NoneValue

classify_and_extract(msg) ==
    FirstMatch(FAILED_PASSWORD_RE(msg), INVALID_USER_RE(msg), PAM_AUTH_FAILURE_RE(msg))

\* rest[msg_split_idx + 2 :] if msg_split_idx != -1 else rest
AfterSeparator(rest, msg_split_idx) ==
    IF msg_split_idx # -1 THEN SliceFrom(rest, msg_split_idx + 2) ELSE rest

\* the whole remainder taken as the message, separator or not
WholeRemainder(rest) == rest

\* the message portion of parse_line: what follows the first ": " of rest
MessageOf(rest) == AfterSeparator(rest, PyFind(rest, ": "))

\* the conversion of the count without its except clause
PropagateValueError(n) == n

\* except ValueError: repetition_count = 1
OneOnValueError(n) ==
    IF n.kind = "raise" /\ n.exc = "ValueError" THEN [kind |-> "int", value |-> 1]
    ELSE n

\* the repetition count of a wrapped message: int(rm.group(1)) in its try
RepetitionCount(group1) == OneOnValueError(PyInt(group1))

\* the record parse_line builds from details
Record(timestamp, det, repetition_count, ln) ==
    [kind |-> "record",
     timestamp |-> timestamp,
     ip_address |-> IF "ip_address" \in DOMAIN det THEN det.ip_address ELSE "",
     username |-> IF "username" \in DOMAIN det THEN det.username ELSE "",
     event_type |-> IF "event_type" \in DOMAIN det THEN det.event_type ELSE "UNKNOWN",
     repetition_count |-> repetition_count,
     raw_message |-> RStripNewlines(ln)]

\* a record built whether or not the message was classified
AssembleAlways(timestamp, det, repetition_count, ln) ==
    Record(timestamp, det, repetition_count, ln)

\* the end of parse_line: no record without details
Assemble(timestamp, det, repetition_count, ln) ==
    IF det.kind = "None" THEN NoneValue
    ELSE Record(timestamp, det, repetition_count, ln)

\* an exception of the repetition count leaves parse_line
AssembleCounted(timestamp, count, det, ln) ==
    IF count.kind = "raise" THEN count
    ELSE Assemble(timestamp, det, count.value, ln)

\* parse_line from the search of the repeated wrapper on
ParseUnwrapped(timestamp, msg, rm, ln) ==
    IF rm.kind = "match"
    THEN AssembleCounted(timestamp, RepetitionCount(rm.group1),
                         classify_and_extract(rm.group2), ln)
    ELSE AssembleCounted(timestamp, [kind |-> "int", value |-> 1],
                         classify_and_extract(msg), ln)

ParseMessage(timestamp, msg, ln) ==
    ParseUnwrapped(timestamp, msg, REPEATED_WRAPPER_RE(msg), ln)

\* parse_line from "if not timestamp" on
ParseStamped(timestamp, rest, ln) ==
    IF timestamp.kind = "raise" THEN timestamp
    ELSE IF timestamp.kind = "None" \/ timestamp.value = "" THEN NoneValue
    ELSE ParseMessage(timestamp.value, MessageOf(rest), ln)

\* parse_line from "if not parts" on
ParseParts(parts, ln, the_year) ==
    IF parts.kind = "None" THEN NoneValue
    ELSE ParseStamped(parse_syslog_timestamp_from_parts(
                          parts.month, parts.day, parts.time, the_year),
                      parts.rest, ln)

parse_line(ln, the_year) == ParseParts(split_prefix_and_message(ln), ln, the_year)

-----------------------------------------------------------------------------
(* Calls of parse_syslog_timestamp_from_parts *)

TsMonths == {"Jan", "Feb", "Apr", "Dec", "jan", "Foo"}
TsDays == {"5", " 5", "05", "5 ", "0", "28", "29", "30", "31", "32", " ", "  "}
TsTimes == {"10:23:45", "00:00:00", "23:59:59", "24:00:00", "10:60:00",
            "10:23:60", "10:23:61", "9:24:00"}
TsYears == {2023, 2024, 1900, 2000, 999, 10000}

\* write_csv is not called
NoPipeline ==
    /\ readable = TRUE /\ csv = [kind |-> "absent"] /\ wpc = "idle"
    /\ error = NoneValue

\* no bytes are decoded, no table is loaded, no service and no SQL tool run
NoRest == raw = <<>> /\ table = NoneValue /\ svc = NoneValue /\ sql = NoneValue

\* no file is being parsed
NoFile ==
    /\ file = <<>> /\ default_year = NoneValue /\ clock = 0
    /\ gen = "closed" /\ pos = 0 /\ records = <<>> /\ previous = NoneValue
    /\ called_at = 0
    /\ NoPipeline /\ NoRest

TsInit ==
    /\ pc = "start"
    /\ ts_args \in [month : TsMonths, day : TsDays, time : TsTimes, year : TsYears]
    /\ ts_result = NoneValue
    /\ message = "" /\ details = NoneValue
    /\ line = "" /\ year = 0 /\ result = NoneValue
    /\ NoFile

CallTimestamp ==
    /\ pc = "start"
    /\ ts_result' = parse_syslog_timestamp_from_parts(
                        ts_args.month, ts_args.day, ts_args.time, ts_args.year)
    /\ pc' = "done"
    /\ UNCHANGED <<ts_args, message, details, line, year, result,
                   file_vars, pipe_vars, rest_vars>>

TsNext == CallTimestamp

TsSpec == TsInit /\ [][TsNext]_vars

-----------------------------------------------------------------------------
(* Calls of classify_and_extract *)

\* messages of sshd, and near misses of each rule
Fragments == {
    "Failed password for root from 10.0.0.9 port 22 ssh2",
    "Failed password for invalid user admin from 10.0.0.9",
    "Failed password for invalid from 10.0.0.7",
    "Failed password for invalid user from 10.0.0.9",
    "Failed password for root from 1234.2.3.4",
    "failed password for root from 10.0.0.9",
    "Invalid user test from 203.0.113.5",
    "Invalid user  from 203.0.113.5",
    "pam_unix(sshd:auth): authentication failure; logname= uid=0 ruser= rhost=203.0.113.5  user=admin",
    "PAM: Authentication Failure; RHOST=host-1.example.com USER=Root",
    "authentication failure; rhost=10.0.0.9",
    "Connection closed by 10.0.0.9 [preauth]" }

ClassifyMessages == Fragments \cup {x \o " " \o y : x \in Fragments, y \in Fragments}

ClassifyInit ==
    /\ pc = "start"
    /\ message \in ClassifyMessages
    /\ details = NoneValue
    /\ ts_args = NoneValue /\ ts_result = NoneValue
    /\ line = "" /\ year = 0 /\ result = NoneValue
    /\ NoFile

CallClassify ==
    /\ pc = "start"
    /\ details' = classify_and_extract(message)
    /\ pc' = "done"
    /\ UNCHANGED <<ts_args, ts_result, message, line, year, result,
                   file_vars, pipe_vars, rest_vars>>

ClassifyNext == CallClassify

ClassifySpec == ClassifyInit /\ [][ClassifyNext]_vars

-----------------------------------------------------------------------------
(* Calls of parse_line *)

\* s repeated n times
RECURSIVE Repeat(_, _)
Repeat(s, n) ==
    IF n = 0 THEN ""
    ELSE IF n = 1 THEN s
    ELSE LET h == Repeat(s, n \div 2)
         IN  h \o h \o (IF n % 2 = 1 THEN s ELSE "")

\* a repetition count with more digits than int() converts
TooManyDigits == Repeat("9", MaxStrDigits + 1)

StampMonths == {"Jan", "Feb", "Apr"}
StampDays == {"5", "05", "15", "0", " ", "29", "30", "31"}
StampTimes == {"10:23:45", "24:00:00", "10:60:00", "10:23:60"}
StampYears == {2023, 2024, 999, 10000}

\* lines that differ in the date and time of the prefix
StampLines ==
    { mo \o " " \o d \o " " \o t
         \o " host sshd[1]: Failed password for root from 10.0.0.9\n" :
      mo \in StampMonths, d \in StampDays, t \in StampTimes }

LineTags == {" host sshd[1]: ", " host ", " ", "\t", " host sshd[1]: error: ", " \n"}
LineTrails == {"", "\n", "\n\n", " \n", "\r\n", " "}
LineMessages == Fragments \cup {
    "Invalid user a from 1.1.1.1 Failed password for b from 2.2.2.2",
    "Invalid user a from 1.1.1.1; authentication failure; rhost=h user=c",
    "message repeated 5 times: [Failed password for invalid user admin from 10.0.0.9]",
    "message repeated 2 times: [ Failed password for root from 10.0.0.9 port 22 ssh2]",
    "message repeated 0 times: [Failed password for root from 10.0.0.9]",
    "message repeated 007 times: [Invalid user test from 203.0.113.5] [preauth]",
    "message repeated 3 times: [Connection closed by 10.0.0.9 [preauth]]",
    "message repeated  times: [Failed password for root from 10.0.0.9]",
    "Invalid user test from 203.0.113.5: no such account" }

\* lines that differ in what follows the prefix
MessageLines ==
    { "Jan 15 10:23:45" \o tag \o msg \o trail :
      tag \in LineTags, msg \in LineMessages, trail \in LineTrails }

\* lines whose repetition count int() does not convert
OverlongCountLines ==
    { "Jan 15 10:23:45 host sshd[1]: message repeated " \o TooManyDigits
          \o " times: [" \o msg \o "]\n" :
      msg \in {"Failed password for root from 10.0.0.9", "session opened"} }

PrefixLeads == {"", " ", "x"}
PrefixMonths == {"Jan", "jan", "JAN", "Ja", "January"}
PrefixSeps == {" ", "  ", "\t", ""}

\* lines that differ in the shape of the prefix
PrefixLines ==
    { lead \o mo \o sep \o "15" \o sep \o "10:24:00" \o sep
          \o "server sshd[1234]: Invalid user test from 203.0.113.5" :
      lead \in PrefixLeads, mo \in PrefixMonths, sep \in PrefixSeps }
    \cup {
      "", "\n", "   ",
      "2024-01-15 10:24:00 server sshd[1234]: Invalid user test from 203.0.113.5",
      "2024-01-15T10:24:00Z server sshd[1234]: Invalid user test from 203.0.113.5",
      "15 Jan 10:24:00 server sshd[1234]: Invalid user test from 203.0.113.5",
      "Jan 15 10:24 server sshd[1234]: Invalid user test from 203.0.113.5",
      "Jan 15 9:24:00 server sshd[1234]: Invalid user test from 203.0.113.5",
      "Jan 115 10:24:00 server sshd[1234]: Invalid user test from 203.0.113.5",
      "Jan 1 5 10:24:00 server sshd[1234]: Invalid user test from 203.0.113.5",
      "Jan 15 10:24:00",
      "Jan 15 10:24:00 ",
      "Jan 15 10:24:00 server sshd[1234]: Invalid user test from 203.0.113.5",
      "Jan 15 10:25:00 server sshd[1234]: pam_unix(sshd:auth): authentication failure; rhost=203.0.113.5 user=admin",
      "Jan 15 10:23:45 host message repeated 5 times: [Failed password for invalid user admin from 10.0.0.9]" }

Init ==
    /\ pc = "start"
    /\ \/ line \in StampLines /\ year \in StampYears
       \/ line \in MessageLines \cup PrefixLines \cup OverlongCountLines
          /\ year = 2024
    /\ result = NoneValue
    /\ ts_args = NoneValue /\ ts_result = NoneValue
    /\ message = "" /\ details = NoneValue
    /\ NoFile

CallParseLine ==
    /\ pc = "start"
    /\ result' = parse_line(line, year)
    /\ pc' = "done"
    /\ UNCHANGED <<ts_args, ts_result, message, details, line, year,
                   file_vars, pipe_vars, rest_vars>>

Next == CallParseLine

Spec == Init /\ [][Next]_vars

-----------------------------------------------------------------------------
(* parse_log_file: a generator over the lines of a file *)

\* most lines a modelled file holds
MaxLines == 3

\* the lines a modelled file is made of, each as iteration over the file gives it
FileLines == {
    "Jan 15 10:23:45 host sshd[1]: Failed password for root from 10.0.0.9\n",
    "Feb 29 10:24:00 host sshd[1]: Invalid user test from 203.0.113.5\n",
    "Jan 15 10:25:00 host sshd[1]: Accepted password for root from 10.0.0.9\n",
    "\n" }

Files == UNION { [1..n -> FileLines] : n \in 0..MaxLines }

ClockYears == {2023, 2024}

\* a dict, as parse_line returns it, is true; None is not
Truthy(v) == v.kind # "None"

\* default_year or datetime.now().year
YearOr(dy, now_year) ==
    IF dy.kind = "int" /\ dy.value # 0 THEN dy.value ELSE now_year

FileInit ==
    /\ pc = "start"
    /\ file \in Files
    /\ default_year \in {NoneValue, [kind |-> "int", value |-> 2023]}
    /\ clock \in ClockYears
    /\ gen = "created"
    /\ year = 0
    /\ pos = 0
    /\ records = <<>>
    /\ previous = NoneValue
    /\ called_at = clock
    /\ ts_args = NoneValue /\ ts_result = NoneValue
    /\ message = "" /\ details = NoneValue
    /\ line = "" /\ result = NoneValue
    /\ NoPipeline /\ NoRest

\* the consumer's first next(): the body runs up to the with statement
StartIteration ==
    /\ gen = "created"
    /\ year' = YearOr(default_year, clock)
    /\ gen' = "open"
    /\ pos' = 0
    /\ UNCHANGED <<pc, ts_args, ts_result, message, details, line, result,
                   file, default_year, clock, records, previous, called_at,
                   pipe_vars, rest_vars>>

\* a loop that does not yield a record equal to one it has yielded
YieldedOnce(recs, rec) ==
    IF Truthy(rec) /\ \A k \in 1..Len(recs) : recs[k] # rec THEN Append(recs, rec)
    ELSE recs

\* what one pass of the for loop adds to the records yielded
Yielded(recs, rec) == IF Truthy(rec) THEN Append(recs, rec) ELSE recs

\* one pass of the for loop: the next line is read and parsed, its record yielded
ReadLine ==
    /\ gen = "open"
    /\ pos < Len(file)
    /\ line' = file[pos + 1]
    /\ result' = parse_line(file[pos + 1], year)
    /\ records' = Yielded(records, result')
    /\ pos' = pos + 1
    /\ UNCHANGED <<pc, ts_args, ts_result, message, details, year,
                   file, default_year, clock, gen, previous, called_at,
                   pipe_vars, rest_vars>>

\* the end of the file: the with statement closes it and the generator returns
EndOfFile ==
    /\ gen = "open"
    /\ pos = Len(file)
    /\ gen' = "closed"
    /\ pc' = "done"
    /\ UNCHANGED <<ts_args, ts_result, message, details, line, year, result,
                   file, default_year, clock, pos, records, previous, called_at,
                   pipe_vars, rest_vars>>

\* the caller calls parse_log_file again, on the unchanged file
CallAgain ==
    /\ gen = "closed"
    /\ previous = NoneValue
    /\ previous' = [kind |-> "run", year |-> year, records |-> records]
    /\ gen' = "created"
    /\ pc' = "start"
    /\ records' = <<>>
    /\ pos' = 0
    /\ called_at' = clock
    /\ UNCHANGED <<ts_args, ts_result, message, details, line, year, result,
                   file, default_year, clock, pipe_vars, rest_vars>>

\* the wall clock passes into the next year
NewYear ==
    /\ clock + 1 \in ClockYears
    /\ clock' = clock + 1
    /\ UNCHANGED <<pc, ts_args, ts_result, message, details, line, year, result,
                   file, default_year, gen, pos, records, previous, called_at,
                   pipe_vars, rest_vars>>

FileNext == StartIteration \/ ReadLine \/ EndOfFile \/ CallAgain \/ NewYear

FileSpec == FileInit /\ [][FileNext]_vars

-----------------------------------------------------------------------------
(* write_csv over the records of parse_log_file, as main() and the startup of
   the service call it: write_csv(parse_log_file(path, year), out_path) *)

fieldnames == <<"timestamp", "ip_address", "username", "event_type",
                "repetition_count", "raw_message">>

\* the characters that make csv.writer quote a field (QUOTE_MINIMAL): the
\* delimiter, the quote character and those of the line terminator
QuotedChars == {",", "\"", "\r", "\n"}

NeedsQuotes(s) == \E k \in 1..Len(s) : Ch(s, k) \in QuotedChars

Quote == {"\""}

\* s with each quote character doubled, q being the place of its first quote
RECURSIVE DoubleQuotes(_)
RECURSIVE DoubleFrom(_, _)
DoubleFrom(s, q) ==
    IF q > Len(s) THEN s
    ELSE SubSeq(s, 1, q) \o "\"" \o DoubleQuotes(SubSeq(s, q + 1, Len(s)))

DoubleQuotes(s) == DoubleFrom(s, RunEndBefore(s, 1, Quote))

\* a field as csv.writer writes it
CsvField(s) == IF NeedsQuotes(s) THEN "\"" \o DoubleQuotes(s) \o "\"" ELSE s

\* a row of six fields as csv.writer writes it, with its line terminator
CsvLine(f) ==
    CsvField(f[1]) \o "," \o CsvField(f[2]) \o "," \o CsvField(f[3]) \o ","
        \o CsvField(f[4]) \o "," \o CsvField(f[5]) \o "," \o CsvField(f[6]) \o "\r\n"

\* writer.writeheader()
HeaderRow == CsvLine(fieldnames)

\* writer.writerow(rec): the values of rec in the order of fieldnames, the
\* integer as str() gives it
CsvRow(rec) ==
    CsvLine(<<rec.timestamp, rec.ip_address, rec.username, rec.event_type,
              FormatInt(rec.repetition_count), rec.raw_message>>)

\* pd.read_csv(csv_path), the defaults of pandas: the tokenizer

FieldStops == {",", "\r", "\n"}

\* the quote that closes a quoted field, q being the first quote after the
\* opening one: a doubled quote is a quote of the field
RECURSIVE ClosingQuote(_, _)
ClosingQuote(s, q) ==
    IF q < Len(s) /\ Ch(s, q + 1) = "\""
    THEN ClosingQuote(s, RunEndBefore(s, q + 2, Quote))
    ELSE q

IsQuotedAt(s, i) == i <= Len(s) /\ Ch(s, i) = "\""

\* the position of the delimiter or line break that ends the field at i
FieldStop(s, i) ==
    IF IsQuotedAt(s, i)
    THEN RunEndBefore(s, ClosingQuote(s, RunEndBefore(s, i + 1, Quote)) + 1, FieldStops)
    ELSE RunEndBefore(s, i, FieldStops)

\* the inside of a quoted field with each doubled quote made one, q being
\* the place of its first quote
RECURSIVE Undouble(_)
RECURSIVE UndoubleFrom(_, _)
UndoubleFrom(s, q) ==
    IF q > Len(s) THEN s
    ELSE SubSeq(s, 1, q) \o Undouble(SubSeq(s, q + 2, Len(s)))

Undouble(s) == UndoubleFrom(s, RunEndBefore(s, 1, Quote))

\* the text of a quoted field at i closed at q and ended at e
QuotedValue(s, i, q, e) == Undouble(SubSeq(s, i + 1, q - 1)) \o SubSeq(s, q + 1, e - 1)

\* the text of the field at i ended at e
FieldValue(s, i, e) ==
    IF IsQuotedAt(s, i)
    THEN QuotedValue(s, i, ClosingQuote(s, RunEndBefore(s, i + 1, Quote)), e)
    ELSE SubSeq(s, i, e - 1)

\* the position after the line break at e ("\r\n", "\r" or "\n")
AfterLineBreak(s, e) == IF LitAt(s, e, "\r\n") THEN e + 2 ELSE e + 1

\* a line without a character is skipped (skip_blank_lines)
WithRow(rows, row) == IF row = <<"">> THEN rows ELSE Append(rows, row)

\* the position of the line break that ends the row whose field at i ends at e
RECURSIVE RowStop(_, _)
RowStop(s, e) ==
    IF e <= Len(s) /\ Ch(s, e) = "," THEN RowStop(s, FieldStop(s, e + 1)) ELSE e

\* the fields of a row from the field at i on, which ends at e, after the
\* fields row
RECURSIVE Fields(_, _, _, _)
Fields(s, i, e, row) ==
    IF e <= Len(s) /\ Ch(s, e) = ","
    THEN Fields(s, e + 1, FieldStop(s, e + 1), Append(row, FieldValue(s, i, e)))
    ELSE Append(row, FieldValue(s, i, e))

\* the rows of fields of the text from i on, after the rows read
RECURSIVE ReadRows(_, _, _)
ReadRows(s, i, rows) ==
    IF i > Len(s) THEN rows
    ELSE ReadRows(s, AfterLineBreak(s, RowStop(s, FieldStop(s, i))),
                  WithRow(rows, Fields(s, i, FieldStop(s, i), <<>>)))

Tokenize(s) == ReadRows(s, 1, <<>>)

\* pd.read_csv(csv_path), the defaults of pandas: the values of a column

\* the texts read as a missing value (na_values with keep_default_na)
NaStrings ==
    {"", "#N/A", "#N/A N/A", "#NA", "-1.#IND", "-1.#QNAN", "-NaN", "-nan",
     "1.#IND", "1.#QNAN", "<NA>", "N/A", "NA", "NULL", "NaN", "None", "n/a",
     "nan", "null"}

BoolTexts == {"True", "TRUE", "true", "False", "FALSE", "false"}

SignChars == {"+", "-"}

\* the position after an optional sign at i
AfterSign(s, i) == IF i <= Len(s) /\ Ch(s, i) \in SignChars THEN i + 1 ELSE i

\* digits with an optional sign
IsIntText(s) ==
    /\ AfterSign(s, 1) <= Len(s)
    /\ RunEnd(s, AfterSign(s, 1), DigitChars) = Len(s) + 1

\* the position after a fraction at b, if one is there
AfterFraction(s, b) ==
    IF b <= Len(s) /\ Ch(s, b) = "." THEN RunEnd(s, b + 1, DigitChars) ELSE b

\* the position after an exponent at c, if one is there
AfterExponent(s, c) ==
    IF /\ c <= Len(s) /\ Ch(s, c) \in {"e", "E"}
       /\ RunEnd(s, AfterSign(s, c + 1), DigitChars) > AfterSign(s, c + 1)
    THEN RunEnd(s, AfterSign(s, c + 1), DigitChars)
    ELSE c

\* a mantissa from a whose integer digits end at b and whose fraction ends at
\* c has a digit, and the number ends the text
IsFloatFrom(s, a, b, c) ==
    /\ b > a \/ c > b + 1
    /\ AfterExponent(s, c) = Len(s) + 1

\* a decimal number, with or without fraction and exponent
IsFloatText(s) ==
    IsFloatFrom(s, AfterSign(s, 1), RunEnd(s, AfterSign(s, 1), DigitChars),
                AfterFraction(s, RunEnd(s, AfterSign(s, 1), DigitChars)))

\* int of a text of digits with an optional sign
SignedValue(s) ==
    IF Ch(s, 1) = "-" THEN 0 - DecimalValue(SubSeq(s, 2, Len(s)))
    ELSE DecimalValue(SubSeq(s, AfterSign(s, 1), Len(s)))

IsNa(s) == s \in NaStrings

\* the type a column of texts is given: numbers if every text that is not a
\* missing value is a number (integers stay integers only if no value is
\* missing), booleans if every text is one, else the texts themselves
ColumnKind(col) ==
    IF Len(col) = 0 THEN "object"
    ELSE IF \A k \in 1..Len(col) : IsNa(col[k]) \/ IsIntText(col[k])
    THEN (IF \E k \in 1..Len(col) : IsNa(col[k]) THEN "float" ELSE "int")
    ELSE IF \A k \in 1..Len(col) : IsNa(col[k]) \/ IsFloatText(col[k])
    THEN "float"
    ELSE IF \A k \in 1..Len(col) : col[k] \in BoolTexts
    THEN "bool"
    ELSE "object"

NaN == [kind |-> "nan"]

\* the value of a text in a column of the given type; a float is kept as the
\* text that denotes it
Cell(s, kind) ==
    IF IsNa(s) THEN NaN
    ELSE IF kind = "int" THEN [kind |-> "int", value |-> SignedValue(s)]
    ELSE IF kind = "float" THEN [kind |-> "float", of |-> s]
    ELSE IF kind = "bool" THEN [kind |-> "bool", value |-> s \in {"True", "TRUE", "true"}]
    ELSE [kind |-> "str", value |-> s]

\* the field c of a row, missing when the row is shorter than the header
FieldOf(row, c) == IF c <= Len(row) THEN row[c] ELSE ""

Column(data, c) == [k \in 1..Len(data) |-> FieldOf(data[k], c)]

Kinds(data, n) == [c \in 1..n |-> ColumnKind(Column(data, c))]

Typed(data, n, kinds) ==
    [k \in 1..Len(data) |-> [c \in 1..n |-> Cell(FieldOf(data[k], c), kinds[c])]]

EmptyDataError == [kind |-> "raise", exc |-> "EmptyDataError"]
ParserError == [kind |-> "raise", exc |-> "ParserError"]

\* the DataFrame of a header and the rows under it
FrameOf(header, data) ==
    IF \E k \in 1..Len(data) : Len(data[k]) > Len(header) THEN ParserError
    ELSE [kind |-> "frame", columns |-> header,
          rows |-> Typed(data, Len(header), Kinds(data, Len(header)))]

FrameOfRows(rows) ==
    IF rows = <<>> THEN EmptyDataError ELSE FrameOf(Head(rows), Tail(rows))

\* pd.read_csv(csv_path) of a file holding the text s
read_csv(s) == FrameOfRows(Tokenize(s))

\* a table an earlier run wrote
OldTable ==
    [kind |-> "file",
     text |-> HeaderRow
              \o "2023-12-31 23:59:59,10.0.0.1,old,FAILED_LOGIN,1,Dec 31 23:59:59 host sshd[1]: Failed password for old from 10.0.0.1\r\n",
     rows |-> 1]

FileNotFoundError == [kind |-> "raise", exc |-> "FileNotFoundError"]
OSError == [kind |-> "raise", exc |-> "OSError"]

\* lines whose user names csv.writer quotes or pandas reads as something
\* other than their text, and a line with a repetition count
TableLines == {
    "Jan 15 10:23:45 host sshd[1]: Failed password for NA from 10.0.0.9\n",
    "Jan 15 10:23:46 host sshd[1]: Failed password for null from 10.0.0.9\n",
    "Jan 15 10:23:47 host sshd[1]: Failed password for 007 from 10.0.0.9\n",
    "Jan 15 10:23:48 host sshd[1]: Invalid user a,b from 10.0.0.9\n",
    "Jan 15 10:23:49 host sshd[1]: Failed password for \"bob\" from 10.0.0.9\n",
    "Jan 15 10:23:50 host sshd[1]: message repeated 3 times: [ Failed password for root from 10.0.0.9]\n" }

\* the files of parse_log_file, and files of one or two such lines
PipeFiles ==
    Files \cup { <<l>> : l \in TableLines } \cup { <<l, m>> : l, m \in TableLines }

\* main() or the startup of the service has called parse_log_file, which ran
\* none of its body, and then write_csv
PipeInit ==
    /\ pc = "start"
    /\ readable \in BOOLEAN
    /\ file \in (IF readable THEN PipeFiles ELSE {<<>>})
    /\ default_year \in {NoneValue, [kind |-> "int", value |-> 2023]}
    /\ clock = 2024
    /\ called_at = clock
    /\ gen = "created"
    /\ year = 0 /\ pos = 0 /\ records = <<>> /\ previous = NoneValue
    /\ csv \in {[kind |-> "absent"], OldTable}
    /\ wpc = "called"
    /\ error = NoneValue
    /\ ts_args = NoneValue /\ ts_result = NoneValue
    /\ message = "" /\ details = NoneValue
    /\ line = "" /\ result = NoneValue
    /\ NoRest

\* what is left of out_path by open(out_path, "a"), which keeps what it holds
Kept(f) == IF f.kind = "file" THEN f ELSE [kind |-> "file", text |-> "", rows |-> 0]

\* write_csv up to its for statement, had it opened the output to append
OpenOutputAppending ==
    /\ wpc = "called"
    /\ csv' = [Kept(csv) EXCEPT !.text = @ \o HeaderRow]
    /\ wpc' = "iterating"
    /\ UNCHANGED <<pc, ts_args, ts_result, message, details, line, year, result,
                   file_vars, readable, error, rest_vars>>

\* write_csv up to its for statement: open(out_path, "w") creates the file
\* or truncates it, and the header is written
OpenOutput ==
    /\ wpc = "called"
    /\ csv' = [kind |-> "file", text |-> HeaderRow, rows |-> 0]
    /\ wpc' = "iterating"
    /\ UNCHANGED <<pc, ts_args, ts_result, message, details, line, year, result,
                   file_vars, readable, error, rest_vars>>

\* the for statement of write_csv asks for the first record: the body of
\* parse_log_file starts and opens the input
PipeStart ==
    /\ wpc = "iterating"
    /\ readable
    /\ StartIteration

\* the same when open(path) fails: the exception leaves the generator, the
\* for statement and the with statement of write_csv, which closes the output
InputOpenFails ==
    /\ wpc = "iterating"
    /\ gen = "created"
    /\ ~readable
    /\ year' = YearOr(default_year, clock)
    /\ gen' = "closed"
    /\ wpc' = "failed"
    /\ error' = FileNotFoundError
    /\ UNCHANGED <<pc, ts_args, ts_result, message, details, line, result,
                   file, default_year, clock, pos, records, previous, called_at,
                   readable, csv, rest_vars>>

\* a generator that reads on without waiting to be asked
PipeReadAhead ==
    /\ wpc = "iterating"
    /\ ReadLine

\* the for statement asks for the next record, every record yielded being
\* written: the generator reads the next line
PipeRead ==
    /\ wpc = "iterating"
    /\ csv.rows = Len(records)
    /\ ReadLine

\* writer.writerow(rec) of the record the generator has just yielded
WriteRow ==
    /\ wpc = "iterating"
    /\ csv.rows < Len(records)
    /\ csv' = [csv EXCEPT !.text = @ \o CsvRow(records[csv.rows + 1]),
                          !.rows = @ + 1]
    /\ UNCHANGED <<pc, ts_args, ts_result, message, details, line, year, result,
                   file_vars, readable, wpc, error, rest_vars>>

\* writer.writerow(rec) fails (the disk is full): the exception leaves
\* write_csv, whose with statement closes the output; the generator stays
\* suspended at its yield
WriteFails ==
    /\ wpc = "iterating"
    /\ csv.rows < Len(records)
    /\ wpc' = "failed"
    /\ error' = OSError
    /\ UNCHANGED <<pc, ts_args, ts_result, message, details, line, year, result,
                   file_vars, readable, csv, rest_vars>>

\* the generator finds the end of the input
PipeEnd ==
    /\ wpc = "iterating"
    /\ csv.rows = Len(records)
    /\ EndOfFile

\* StopIteration ends the for statement: the output is closed, write_csv returns
WriteDone ==
    /\ wpc = "iterating"
    /\ gen = "closed" /\ pc = "done"
    /\ wpc' = "done"
    /\ UNCHANGED <<pc, ts_args, ts_result, message, details, line, year, result,
                   file_vars, readable, csv, error, rest_vars>>

\* the suspended generator is finalized, when the interpreter comes to
\* release it: GeneratorExit is raised at the yield and the with statement
\* of parse_log_file closes the input
Finalize ==
    /\ wpc = "failed"
    /\ gen = "open"
    /\ gen' = "closed"
    /\ UNCHANGED <<pc, ts_args, ts_result, message, details, line, year, result,
                   file, default_year, clock, pos, records, previous, called_at,
                   pipe_vars, rest_vars>>

\* app.state.ssh_df = pd.read_csv(csv_path), of the table just written
LoadCsv ==
    /\ wpc = "done"
    /\ wpc' = "loaded"
    /\ table' = read_csv(csv.text)
    /\ UNCHANGED <<pc, ts_args, ts_result, message, details, line, year, result,
                   file_vars, readable, csv, error, raw, svc, sql>>

PipeNext ==
    \/ OpenOutput \/ PipeStart \/ InputOpenFails \/ PipeRead
    \/ WriteRow \/ WriteFails \/ PipeEnd \/ WriteDone \/ Finalize
    \/ LoadCsv

PipeSpec == PipeInit /\ [][PipeNext]_vars

-----------------------------------------------------------------------------
(* The text of the input: open(path, "r", encoding="utf-8", errors="ignore") *)

\* the characters of the code points 32 to 95 and 97 to 126, in their order
AsciiLow == " !\"#$%&'()*+,-./0123456789:;<=>?@ABCDEFGHIJKLMNOPQRSTUVWXYZ[\\]^_"
AsciiHigh == "abcdefghijklmnopqrstuvwxyz{|}~"

\* the character of a code point (of those the files of the model hold)
Chr(cp) ==
    IF cp = 9 THEN "\t"
    ELSE IF cp = 10 THEN "\n"
    ELSE IF cp = 13 THEN "\r"
    ELSE IF cp = 233 THEN "é"
    ELSE IF cp = 8364 THEN "€"
    ELSE IF cp <= 95 THEN Ch(AsciiLow, cp - 31)
    ELSE Ch(AsciiHigh, cp - 96)

\* the byte of a character below 128
Ord(c) ==
    IF c = "\t" THEN 9
    ELSE IF c = "\n" THEN 10
    ELSE IF c = "\r" THEN 13
    ELSE IF \E k \in 1..Len(AsciiLow) : Ch(AsciiLow, k) = c
    THEN 31 + CHOOSE k \in 1..Len(AsciiLow) : Ch(AsciiLow, k) = c
    ELSE 96 + CHOOSE k \in 1..Len(AsciiHigh) : Ch(AsciiHigh, k) = c

\* the bytes a text of such characters is stored as
Bytes(s) == [k \in 1..Len(s) |-> Ord(Ch(s, k))]

\* the text of the bytes b[i..j], every one below 128
RECURSIVE AsciiText(_, _, _)
AsciiText(b, i, j) ==
    IF i > j THEN ""
    ELSE IF i = j THEN Chr(b[i])
    ELSE AsciiText(b, i, (i + j) \div 2) \o AsciiText(b, ((i + j) \div 2) + 1, j)

\* first position >= i whose byte is not below 128 (Len(b)+1 if none)
AsciiEnd(b, i) == Min({j \in i..Len(b) : b[j] >= 128} \cup {Len(b) + 1})

\* the continuation bytes a first byte asks for (0: not a first byte)
Need(lead) ==
    IF lead \in 194..223 THEN 1
    ELSE IF lead \in 224..239 THEN 2
    ELSE IF lead \in 240..244 THEN 3
    ELSE 0

Continuation == 128..191

\* the second bytes UTF-8 admits after a first byte
SecondRange(lead) ==
    IF lead = 224 THEN 160..191
    ELSE IF lead = 237 THEN 128..159
    ELSE IF lead = 240 THEN 144..191
    ELSE IF lead = 244 THEN 128..143
    ELSE Continuation

SecondOk(b, i) == Need(b[i]) >= 1 /\ i + 1 <= Len(b) /\ b[i + 1] \in SecondRange(b[i])
ThirdOk(b, i) == SecondOk(b, i) /\ Need(b[i]) >= 2 /\ i + 2 <= Len(b) /\ b[i + 2] \in Continuation
FourthOk(b, i) == ThirdOk(b, i) /\ Need(b[i]) >= 3 /\ i + 3 <= Len(b) /\ b[i + 3] \in Continuation

\* the bytes from i on that are the start of a sequence of UTF-8
Matched(b, i) ==
    IF FourthOk(b, i) THEN 4
    ELSE IF ThirdOk(b, i) THEN 3
    ELSE IF SecondOk(b, i) THEN 2
    ELSE 1

\* a whole sequence of more than one byte stands at i
IsSequence(b, i) == Need(b[i]) >= 1 /\ Matched(b, i) = Need(b[i]) + 1

\* the code point of the sequence of n bytes at i
CodePoint(b, i, n) ==
    IF n = 2 THEN (b[i] - 192) * 64 + (b[i + 1] - 128)
    ELSE IF n = 3 THEN (b[i] - 224) * 4096 + (b[i + 1] - 128) * 64 + (b[i + 2] - 128)
    ELSE (b[i] - 240) * 262144 + (b[i + 1] - 128) * 4096 + (b[i + 2] - 128) * 64
             + (b[i + 3] - 128)

\* bytes.decode("utf-8", errors="ignore") from i on: the bytes that are no
\* sequence of UTF-8 are left out
RECURSIVE DecodeFrom(_, _)
DecodeFrom(b, i) ==
    IF i > Len(b) THEN ""
    ELSE IF b[i] < 128
    THEN AsciiText(b, i, AsciiEnd(b, i) - 1) \o DecodeFrom(b, AsciiEnd(b, i))
    ELSE IF IsSequence(b, i)
    THEN Chr(CodePoint(b, i, Matched(b, i))) \o DecodeFrom(b, i + Matched(b, i))
    ELSE DecodeFrom(b, i + Matched(b, i))

Decode(b) == DecodeFrom(b, 1)

Return == {"\r"}

\* the text with "\r\n" and "\r" made "\n" (newline=None), r being the place
\* of its first "\r"
RECURSIVE Translate(_)
RECURSIVE TranslateFrom(_, _)
TranslateFrom(s, r) ==
    IF r > Len(s) THEN s
    ELSE SubSeq(s, 1, r - 1) \o "\n"
             \o Translate(SubSeq(s, IF LitAt(s, r, "\r\n") THEN r + 2 ELSE r + 1, Len(s)))

Translate(s) == TranslateFrom(s, RunEndBefore(s, 1, Return))

\* lines of one file each, around bytes that are or are not UTF-8
RawHeads == {
    "Jan 15 10:23:45 host sshd[1]: Failed password for ro",
    "Jan 15 10:23:45 host sshd[1]: Invalid user ro",
    "Jan 15 10:23:45 host sshd[1]: Accepted password for ro" }

RawMiddles == {
    <<>>, <<255>>, <<192>>, <<128>>, <<195>>, <<195, 169>>, <<226, 130>>,
    <<226, 130, 172>>, <<237, 160, 128>> }

RawTails == { "ot from 10.0.0.9\n", "ot from 10.0.0.9\r\n", "ot from 10.0.0.9" }

RawLines == { Bytes(h) \o m \o Bytes(t) : h \in RawHeads, m \in RawMiddles, t \in RawTails }

DecodeInit ==
    /\ pc = "start"
    /\ raw \in RawLines
    /\ year = 2024
    /\ line = "" /\ result = NoneValue
    /\ ts_args = NoneValue /\ ts_result = NoneValue
    /\ message = "" /\ details = NoneValue
    /\ file = <<>> /\ default_year = NoneValue /\ clock = 0
    /\ gen = "open" /\ pos = 0 /\ records = <<>> /\ previous = NoneValue
    /\ called_at = 0
    /\ NoPipeline
    /\ table = NoneValue /\ svc = NoneValue /\ sql = NoneValue

\* for line in f: the line the file object gives
DecodeLine ==
    /\ pc = "start"
    /\ line' = Translate(Decode(raw))
    /\ pc' = "decoded"
    /\ UNCHANGED <<ts_args, ts_result, message, details, year, result,
                   file_vars, pipe_vars, rest_vars>>

\* rec = parse_line(line, year)
ParseDecoded ==
    /\ pc = "decoded"
    /\ result' = parse_line(line, year)
    /\ pc' = "done"
    /\ UNCHANGED <<ts_args, ts_result, message, details, line, year,
                   file_vars, pipe_vars, rest_vars>>

DecodeNext == DecodeLine \/ ParseDecoded

DecodeSpec == DecodeInit /\ [][DecodeNext]_vars

-----------------------------------------------------------------------------
(* The service: its startup, which regenerates and loads the table, and its
   two endpoints *)

MaxTime == 6

\* the records parse_log_file yields over the first n lines of f
RECURSIVE ParsedLines(_, _, _)
ParsedLines(f, n, y) ==
    IF n = 0 THEN <<>> ELSE Yielded(ParsedLines(f, n - 1, y), parse_line(f[n], y))

\* what write_csv has written after the header and the first k records
RECURSIVE Written(_, _)
Written(recs, k) ==
    IF k = 0 THEN HeaderRow ELSE Written(recs, k - 1) \o CsvRow(recs[k])

\* csv_path after write_csv wrote k records at time t
TableFile(recs, k, t) ==
    [kind |-> "file", text |-> Written(recs, k), rows |-> k, mtime |-> t]

\* pd.DataFrame(columns=[...])
EmptyFrame == [kind |-> "frame", columns |-> fieldnames, rows |-> <<>>]

ServiceLogs == {
    <<"Jan 15 10:23:45 host sshd[1]: Failed password for root from 10.0.0.9\n">>,
    <<"Jan 15 10:23:45 host sshd[1]: Failed password for root from 10.0.0.9\n",
      "Feb 29 10:24:00 host sshd[1]: Invalid user test from 203.0.113.5\n">> }

Messages == {"Hello from test", ""}

\* what agent.invoke gives: the content of its last message, or an exception
\* (the model server does not answer)
AgentOutcomes == {
    [kind |-> "str", value |-> "There are 2 failed logins.\n"],
    [kind |-> "str", value |-> " "],
    [kind |-> "raise", exc |-> "ConnectionError"] }

\* the records of the log as a regeneration parses it
LogRecords == ParsedLines(file, Len(file), YearOr(NoneValue, clock))

\* data/ssh-audit.csv as earlier runs of the service may have left it: absent,
\* opened for writing and never written to, written before the log was last
\* changed, or written from the log as it is, after it or within the same tick
\* of the file system's clock
EarlierCsv(log_exists, records_then) ==
    {[kind |-> "absent"]}
        \cup {[kind |-> "file", text |-> "", rows |-> 0, mtime |-> 0]}
        \cup {[kind |-> "file", text |-> OldTable.text, rows |-> 1, mtime |-> 0]}
        \cup (IF log_exists
              THEN {TableFile(records_then, Len(records_then), t) : t \in {1, 2}}
              ELSE {})

ServiceInit ==
    /\ pc = "start"
    /\ clock = 2024 /\ year = 0
    /\ \E log_exists \in BOOLEAN :
           /\ file \in (IF log_exists THEN ServiceLogs ELSE {<<>>})
           /\ readable \in (IF log_exists THEN BOOLEAN ELSE {FALSE})
           /\ csv \in EarlierCsv(log_exists, ParsedLines(file, Len(file), 2024))
           /\ svc = [phase |-> "down", log_exists |-> log_exists, log_mtime |-> 1,
                     now |-> 3, agent |-> NoneValue, source |-> "none",
                     healthy |-> FALSE, response |-> NoneValue]
    /\ table = NoneValue
    /\ default_year = NoneValue /\ called_at = 0
    /\ gen = "closed" /\ pos = 0 /\ records = <<>> /\ previous = NoneValue
    /\ wpc = "idle" /\ error = NoneValue
    /\ ts_args = NoneValue /\ ts_result = NoneValue
    /\ message = "" /\ details = NoneValue
    /\ line = "" /\ result = NoneValue
    /\ raw = <<>> /\ sql = NoneValue

csv_exists == csv.kind = "file"

\* a table as old as the log taken for stale too
RegenerateUnlessNewer ==
    IF svc.log_exists
    THEN (IF ~csv_exists THEN TRUE ELSE csv.mtime <= svc.log_mtime)
    ELSE FALSE

\* regenerate_csv, as init_ssh_dataframe computes it
regenerate_csv ==
    IF svc.log_exists
    THEN (IF ~csv_exists THEN TRUE ELSE csv.mtime < svc.log_mtime)
    ELSE FALSE

\* the DataFrame of the startup's if statement: read from csv_path if it was
\* there or was regenerated, else empty
LoadedFrame(f) == IF f.kind = "file" THEN read_csv(f.text) ELSE EmptyFrame

\* the handler running for a regeneration that raised and for nothing else
RegenerationRaised(failed, frame) == failed

\* the exception handler of the startup has run
Fallen(failed, frame) == failed \/ frame.kind = "raise"

\* the state the startup leaves: after is csv_path after the regeneration,
\* failed says that the regeneration raised, built that build_agent returned
Started(after, failed, built) ==
    /\ csv' = after
    /\ table' = IF Fallen(failed, LoadedFrame(after)) THEN EmptyFrame
                ELSE LoadedFrame(after)
    /\ svc' = [svc EXCEPT
                 !.phase = "up",
                 !.now = @ + 1,
                 !.source = IF Fallen(failed, LoadedFrame(after)) THEN "fallback"
                            ELSE IF after.kind = "file" THEN "csv" ELSE "empty",
                 !.agent = IF Fallen(failed, LoadedFrame(after)) \/ ~built THEN NoneValue
                           ELSE [kind |-> "agent"],
                 !.healthy = FALSE,
                 !.response = NoneValue]
    /\ UNCHANGED <<pc, ts_args, ts_result, message, details, line, year, result,
                   file_vars, readable, wpc, error, raw, sql>>

\* init_ssh_dataframe, the regeneration, if there is one, succeeding
StartupLoads ==
    /\ svc.phase = "down"
    /\ svc.now < MaxTime
    /\ regenerate_csv => readable
    /\ \E built \in BOOLEAN :
           Started(IF regenerate_csv
                   THEN TableFile(LogRecords, Len(LogRecords), svc.now)
                   ELSE csv,
                   FALSE, built)

\* init_ssh_dataframe, the regeneration raising: the log cannot be opened,
\* or a row cannot be written; csv_path keeps what was written until then
StartupRegenerationFails ==
    /\ svc.phase = "down"
    /\ svc.now < MaxTime
    /\ regenerate_csv
    /\ \E k \in 0..Len(LogRecords) :
           /\ ~readable => k = 0
           /\ readable => k < Len(LogRecords)
           /\ Started(TableFile(LogRecords, k, svc.now), TRUE, FALSE)

\* the server is stopped
Shutdown ==
    /\ svc.phase = "up"
    /\ svc' = [svc EXCEPT !.phase = "down", !.healthy = FALSE, !.response = NoneValue]
    /\ UNCHANGED <<pc, ts_args, ts_result, message, details, line, year, result,
                   file_vars, pipe_vars, raw, table, sql>>

\* the log is written to while the server is stopped
TouchLog ==
    /\ svc.phase = "down"
    /\ svc.log_exists
    /\ svc.now < MaxTime
    /\ svc' = [svc EXCEPT !.log_mtime = svc.now, !.now = @ + 1]
    /\ UNCHANGED <<pc, ts_args, ts_result, message, details, line, year, result,
                   file_vars, pipe_vars, raw, table, sql>>

\* GET /health
health ==
    /\ svc.phase = "up"
    /\ svc' = [svc EXCEPT
                 !.healthy = TRUE,
                 !.response = [endpoint |-> "/health", status_code |-> 200,
                               status |-> "healthy"]]
    /\ UNCHANGED <<pc, ts_args, ts_result, message, details, line, year, result,
                   file_vars, pipe_vars, raw, table, sql>>

\* output = (output or "").strip() or "No output"
Output(s) == IF Strip(s) = "" THEN "No output" ELSE Strip(s)

\* the answer of query_endpoint to the message m, out being what agent.invoke
\* gives
QueryResponse(m, agent, out) ==
    IF agent = NoneValue \/ out.kind = "raise"
    THEN [endpoint |-> "/api/query", request |-> m, status_code |-> 500]
    ELSE [endpoint |-> "/api/query", request |-> m, status_code |-> 200,
          status |-> "success", received_message |-> m,
          llm_response |-> [kind |-> "str", value |-> Output(out.value)]]

\* POST /api/query
query_endpoint ==
    /\ svc.phase = "up"
    /\ \E m \in Messages, out \in AgentOutcomes :
           svc' = [svc EXCEPT !.response = QueryResponse(m, svc.agent, out)]
    /\ UNCHANGED <<pc, ts_args, ts_result, message, details, line, year, result,
                   file_vars, pipe_vars, raw, table, sql>>

ServiceNext ==
    \/ StartupLoads \/ StartupRegenerationFails \/ Shutdown \/ TouchLog
    \/ health \/ query_endpoint

ServiceSpec == ServiceInit /\ [][ServiceNext]_vars

-----------------------------------------------------------------------------
(* The SQL tool of the agent: sql_query over a connection of DuckDB *)

MaxCalls == 3

\* texts the agent may pass as query
SqlQueries == {
    "SELECT * FROM ssh",
    "  select count(*) from ssh ;; ",
    "DROP VIEW ssh",
    "",
    "SELECTED rows",
    "SELECT 1; DROP VIEW ssh",
    "SELECT 1; CREATE TABLE t AS SELECT * FROM ssh;",
    "SELECT * FROM t" }

Semicolon == {";"}

\* str.rstrip(";")
RStripSemicolons(s) ==
    SubSeq(s, 1, Max({k \in 1..Len(s) : Ch(s, k) \notin Semicolon} \cup {0}))

\* q = query.strip().rstrip(";")
Normalized(query) == RStripSemicolons(Strip(query))

\* q.upper().startswith("SELECT")
StartsWithSelect(q) == LitAtIgnoreCase(q, 1, "select")

\* the statements DuckDB finds in a text: its parts between semicolons, those
\* of white space alone left out (the texts of the model hold no semicolon
\* inside a string or a comment), e being the place of the first semicolon
RECURSIVE Statements(_)
RECURSIVE StatementsFrom(_, _)
WithStatement(s, rest) == IF Strip(s) = "" THEN rest ELSE <<Strip(s)>> \o rest

StatementsFrom(s, e) ==
    IF e > Len(s) THEN WithStatement(s, <<>>)
    ELSE WithStatement(SubSeq(s, 1, e - 1), Statements(SubSeq(s, e + 1, Len(s))))

Statements(s) == StatementsFrom(s, RunEndBefore(s, 1, Semicolon))

\* the first word of a statement is the keyword kw
HasKeyword(s, kw) ==
    LitAtIgnoreCase(s, 1, kw) /\ RunEnd(s, 1, WordChars) = Len(kw) + 1

\* the word of s at position i
WordAt(s, i) == SubSeq(s, i, RunEnd(s, i, WordChars) - 1)

\* what a statement is to the parser of DuckDB, of the statements of the model
StatementKind(s) ==
    IF HasKeyword(s, "select") THEN "select"
    ELSE IF LitAtIgnoreCase(s, 1, "drop view ") THEN "drop"
    ELSE IF LitAtIgnoreCase(s, 1, "create table ") THEN "create"
    ELSE "error"

\* the places of a FROM clause in a statement
FromPlaces(s) == {i \in 1..Len(s) : LitAtIgnoreCase(s, i, " from ")}

\* the relations a statement reads
ReadNames(s) == {WordAt(s, i + 6) : i \in FromPlaces(s)}

\* the connection after one statement: a statement that names a relation the
\* catalog does not hold, or creates one it holds, raises and ends the call
Apply(c, s) ==
    IF c.failed THEN c
    ELSE IF ~(ReadNames(s) \subseteq c.relations)
    THEN [c EXCEPT !.failed = TRUE, !.executed = Append(@, s)]
    ELSE IF StatementKind(s) = "drop"
    THEN (IF WordAt(s, 11) \in c.relations
          THEN [c EXCEPT !.relations = @ \ {WordAt(s, 11)}, !.executed = Append(@, s)]
          ELSE [c EXCEPT !.failed = TRUE, !.executed = Append(@, s)])
    ELSE IF StatementKind(s) = "create"
    THEN (IF WordAt(s, 14) \in c.relations
          THEN [c EXCEPT !.failed = TRUE, !.executed = Append(@, s)]
          ELSE [c EXCEPT !.relations = @ \cup {WordAt(s, 14)}, !.executed = Append(@, s)])
    ELSE [c EXCEPT !.executed = Append(@, s)]

\* conn.execute(q): the first n statements of the text, one after the other
RECURSIVE Run(_, _, _)
Run(c, stmts, n) == IF n = 0 THEN c ELSE Apply(Run(c, stmts, n - 1), stmts[n])

Rejection == [kind |-> "str", value |-> "SQL error: Only SELECT queries are allowed."]

\* f"SQL error: {e}"
SqlError == [kind |-> "str", starts |-> "SQL error: "]

\* df.to_csv(index=False) of the result of the last statement
CsvOut == [kind |-> "str", starts |-> ""]

\* the connection and the answer after conn.execute of the statements, c
\* being the connection after them: fetch_df() gives the rows of a SELECT,
\* and of a last statement that is none it gives a frame or raises
Executed(c, last, fetch_raises) ==
    [c EXCEPT !.failed = FALSE,
              !.answer = IF c.failed \/ (StatementKind(last) # "select" /\ fetch_raises)
                         THEN SqlError ELSE CsvOut]

\* conn.execute(q).fetch_df() in its try statement: a text the parser does
\* not accept raises before any statement runs
Execute(c, stmts, fetch_raises) ==
    IF \E k \in 1..Len(stmts) : StatementKind(stmts[k]) = "error"
    THEN [c EXCEPT !.answer = SqlError]
    ELSE Executed(Run(c, stmts, Len(stmts)), stmts[Len(stmts)], fetch_raises)

\* the body of sql_query for the stripped text q
Answer(c, q, fetch_raises) ==
    IF ~StartsWithSelect(q) THEN [c EXCEPT !.answer = Rejection, !.query = q]
    ELSE Execute([c EXCEPT !.query = q], Statements(q), fetch_raises)

\* make_sql_tool({"ssh": app.state.ssh_df}): the DataFrame is registered
SqlInit ==
    /\ pc = "start"
    /\ sql = [relations |-> {"ssh"}, executed |-> <<>>, failed |-> FALSE,
              query |-> "", answer |-> NoneValue, calls |-> 0]
    /\ ts_args = NoneValue /\ ts_result = NoneValue
    /\ message = "" /\ details = NoneValue
    /\ line = "" /\ year = 0 /\ result = NoneValue
    /\ file = <<>> /\ default_year = NoneValue /\ clock = 0
    /\ gen = "closed" /\ pos = 0 /\ records = <<>> /\ previous = NoneValue
    /\ called_at = 0
    /\ NoPipeline
    /\ raw = <<>> /\ table = NoneValue /\ svc = NoneValue

\* the agent calls the tool
sql_query ==
    /\ sql.calls < MaxCalls
    /\ \E query \in SqlQueries, fetch_raises \in BOOLEAN :
           sql' = [Answer(sql, Normalized(query), fetch_raises) EXCEPT !.calls = @ + 1]
    /\ UNCHANGED <<pc, ts_args, ts_result, message, details, line, year, result,
                   file_vars, pipe_vars, raw, table, svc>>

SqlNext == sql_query

SqlSpec == SqlInit /\ [][SqlNext]_vars

-----------------------------------------------------------------------------
(* Properties *)

(* What the properties say of dates and of the prefix is written here without
   the operators of the parser, so that a fault of the parser shows. *)

MonthNames == <<"Jan", "Feb", "Mar", "Apr", "May", "Jun",
                "Jul", "Aug", "Sep", "Oct", "Nov", "Dec">>

IsMonthName(name) == \E k \in 1..12 : MonthNames[k] = name

MonthNumber(name) == CHOOSE k \in 1..12 : MonthNames[k] = name

LeapYear(y) == y % 400 = 0 \/ (y % 4 = 0 /\ y % 100 # 0)

LengthOfMonth(y, m) ==
    CASE m = 2 -> (IF LeapYear(y) THEN 29 ELSE 28)
      [] m \in {4, 6, 9, 11} -> 30
      [] OTHER -> 31

\* a year a timestamp YYYY-MM-DD HH:MM:SS can carry
FourDigitYear(y) == 1000 <= y /\ y <= 9999

AllDigits(s) == \A k \in 1..Len(s) : Ch(s, k) \in DigitChars

\* the number the n characters of t from position i denote
NumberAt(t, i, n) == DecimalValue(SubSeq(t, i, i + n - 1))

TwoDigits(n) == Ch("0123456789", (n \div 10) + 1) \o Ch("0123456789", (n % 10) + 1)

FourDigits(n) == TwoDigits(n \div 100) \o TwoDigits(n % 100)

\* t has the shape HH:MM:SS
IsClockText(t) ==
    /\ Len(t) = 8
    /\ \A k \in {1, 2, 4, 5, 7, 8} : Ch(t, k) \in DigitChars
    /\ Ch(t, 3) = ":" /\ Ch(t, 6) = ":"

\* HH:MM:SS is a time of day
IsTimeOfDay(t) ==
    /\ IsClockText(t)
    /\ NumberAt(t, 1, 2) <= 23 /\ NumberAt(t, 4, 2) <= 59 /\ NumberAt(t, 7, 2) <= 59

\* the day of a prefix or of a call: one or two digits, spaces around them
\* aside, that number a day of the month
IsDayText(d) == Len(Strip(d)) \in {1, 2} /\ AllDigits(Strip(d))

IsDayOfMonth(d, y, m) ==
    /\ IsDayText(d)
    /\ 1 <= DecimalValue(Strip(d)) /\ DecimalValue(Strip(d)) <= LengthOfMonth(y, m)

\* t is YYYY-MM-DD HH:MM:SS
IsCanonicalTimestamp(t) ==
    /\ Len(t) = 19
    /\ AllDigits(SubSeq(t, 1, 4)) /\ Ch(t, 5) = "-"
    /\ AllDigits(SubSeq(t, 6, 7)) /\ Ch(t, 8) = "-"
    /\ AllDigits(SubSeq(t, 9, 10)) /\ Ch(t, 11) = " "
    /\ IsClockText(SubSeq(t, 12, 19))

\* t is canonical and a real date and time of year y
DenotesDateTimeOf(t, y) ==
    /\ IsCanonicalTimestamp(t)
    /\ NumberAt(t, 1, 4) = y /\ FourDigitYear(y)
    /\ NumberAt(t, 6, 2) \in 1..12
    /\ NumberAt(t, 9, 2) \in 1..LengthOfMonth(y, NumberAt(t, 6, 2))
    /\ IsTimeOfDay(SubSeq(t, 12, 19))

\* the month, day and time of a matched prefix do not resolve in year y
Unresolvable(parts, y) ==
    \/ ~IsDayOfMonth(parts.day, y, MonthNumber(parts.month))
    \/ ~IsTimeOfDay(parts.time)
    \/ ~FourDigitYear(y)

\* the message of a line with a prefix, as parse_line cuts it
MessageOfLine(ln) == MessageOf(split_prefix_and_message(ln).rest)

\* that message is a repetition wrapper
HasWrapper(ln) == REPEATED_WRAPPER_RE(MessageOfLine(ln)).kind = "match"

\* the text of a line with a prefix that parse_line classifies: the inner
\* message of the wrapper, or the message itself
ClassifiedText(ln) ==
    IF HasWrapper(ln) THEN REPEATED_WRAPPER_RE(MessageOfLine(ln)).group2
    ELSE MessageOfLine(ln)

EventTypes == {"FAILED_LOGIN", "FAILED_LOGIN_INVALID_USER", "INVALID_USER",
               "PAM_AUTH_FAILURE"}

\* C1: a record parse_line returns has one of the four event types, and a
\* line whose message no rule classifies gives no record; no record has the
\* event type UNKNOWN.
EventTypeEnumerated ==
    pc = "done" =>
        /\ result.kind = "record" => result.event_type \in EventTypes
        /\ /\ split_prefix_and_message(line).kind = "dict"
           /\ classify_and_extract(ClassifiedText(line)).kind = "None"
           => result.kind = "None"

\* a line with a prefix and a timestamp that resolves, whose message no rule
\* classifies, has been parsed and gave no record
UnclassifiedDropped ==
    /\ pc = "done"
    /\ split_prefix_and_message(line).kind = "dict"
    /\ ~Unresolvable(split_prefix_and_message(line), year)
    /\ classify_and_extract(ClassifiedText(line)).kind = "None"
    /\ result.kind = "None"

\* C2: every record has repetition_count >= 1, and exactly 1 when the message
\* of the line has no repetition wrapper.
RepetitionCountPositive ==
    pc = "done" /\ result.kind = "record" =>
        /\ result.repetition_count >= 1
        /\ ~HasWrapper(line) => result.repetition_count = 1

\* C3: the timestamp of a record is YYYY-MM-DD HH:MM:SS and a real date and
\* time of the fallback year, with the time of the line; a line whose prefix
\* matches and whose day, time or year does not resolve gives no record.
TimestampCanonical ==
    pc = "done" =>
        /\ result.kind = "record" =>
               /\ DenotesDateTimeOf(result.timestamp, year)
               /\ SubSeq(result.timestamp, 12, 19) = split_prefix_and_message(line).time
        /\ /\ split_prefix_and_message(line).kind = "dict"
           /\ Unresolvable(split_prefix_and_message(line), year)
           => result.kind = "None"

\* a line with a prefix that does not resolve and a message a rule
\* classifies has been parsed and gave no record
UnresolvableDropped ==
    /\ pc = "done"
    /\ split_prefix_and_message(line).kind = "dict"
    /\ Unresolvable(split_prefix_and_message(line), year)
    /\ classify_and_extract(ClassifiedText(line)).kind = "dict"
    /\ result.kind = "None"

\* the line without the newline that ends it, if one does
WithoutNewline(ln) ==
    IF Len(ln) > 0 /\ Ch(ln, Len(ln)) = "\n" THEN SubSeq(ln, 1, Len(ln) - 1) ELSE ln

\* C4: raw_message of a record is the input line with only its trailing
\* newline removed, whether or not the message was cut or unwrapped.
RawMessageVerbatim ==
    pc = "done" /\ result.kind = "record" =>
        result.raw_message = WithoutNewline(line)

\* a line with a process tag, a wrapper and white space before its newline
\* gave a record that keeps all of them
WrappedLineKept ==
    /\ pc = "done"
    /\ result.kind = "record"
    /\ HasWrapper(line)
    /\ MessageOfLine(line) # split_prefix_and_message(line).rest
    /\ Len(line) > 2 /\ SubSeq(line, Len(line) - 1, Len(line)) = "\r\n"
    /\ result.raw_message = SubSeq(line, 1, Len(line) - 1)

\* the line begins with a month name, a day of one or two digits and a time
\* HH:MM:SS, each followed by white space
BeginsWithPrefix(ln) ==
    /\ Len(ln) >= 3 /\ IsMonthName(SubSeq(ln, 1, 3))
    /\ LET dayAt == RunEnd(ln, 4, SpaceChars)
           dayEnd == RunEnd(ln, dayAt, DigitChars)
           timeAt == RunEnd(ln, dayEnd, SpaceChars)
       IN  /\ dayAt > 4
           /\ dayEnd - dayAt \in {1, 2}
           /\ timeAt > dayEnd
           /\ timeAt + 8 <= Len(ln)
           /\ IsClockText(SubSeq(ln, timeAt, timeAt + 7))
           /\ Ch(ln, timeAt + 8) \in SpaceChars

\* C5: a line that does not begin with the prefix gives no record and no
\* exception, whatever follows in it.
NoPrefixNoRecord ==
    pc = "done" /\ ~BeginsWithPrefix(line) => result.kind = "None"

\* a line without the prefix that holds a message the invalid-user rule
\* matches has been parsed and gave no record
ClassifiableWithoutPrefix ==
    /\ pc = "done"
    /\ ~BeginsWithPrefix(line)
    /\ INVALID_USER_RE(line).kind = "match"
    /\ result.kind = "None"

\* the arguments of the call are a month name, a day of that month in the
\* year, a time of day HH:MM:SS and a four-digit year
ValidTuple(a) ==
    /\ IsMonthName(a.month)
    /\ FourDigitYear(a.year)
    /\ IsDayOfMonth(a.day, a.year, MonthNumber(a.month))
    /\ IsTimeOfDay(a.time)

\* d is blank, or a number that is no day of month m of year y
NoDayOfMonth(d, y, m) ==
    \/ Strip(d) = ""
    \/ /\ AllDigits(Strip(d))
       /\ DecimalValue(Strip(d)) \notin 1..LengthOfMonth(y, m)

\* the arguments are no date and time of the calendar: no month of that
\* name, no such year, no such day in the month, or HH:MM:SS with an hour,
\* minute or second out of range
NoCalendarDate(a) ==
    \/ ~IsMonthName(a.month)
    \/ a.year < 1 \/ a.year > 9999
    \/ NoDayOfMonth(a.day, a.year, MonthNumber(a.month))
    \/ IsClockText(a.time) /\ ~IsTimeOfDay(a.time)

\* C6: for a valid tuple parse_syslog_timestamp_from_parts returns the year,
\* the number of the month and the day, both padded to two digits, and the
\* time unchanged; for a tuple that is no calendar date (Feb 30, Apr 31,
\* Feb 29 of a year that is not a leap year) it returns None.
TimestampFromParts ==
    pc = "done" =>
        /\ ValidTuple(ts_args) =>
               ts_result =
                   [kind |-> "str",
                    value |-> FourDigits(ts_args.year) \o "-"
                              \o TwoDigits(MonthNumber(ts_args.month)) \o "-"
                              \o TwoDigits(DecimalValue(Strip(ts_args.day)))
                              \o " " \o ts_args.time]
        /\ NoCalendarDate(ts_args) => ts_result.kind = "None"

\* Feb 29 has been resolved in a leap year, its day given with a space
\* before it padded with a zero in another call
LeapDayResolved ==
    /\ pc = "done"
    /\ ts_args.month = "Feb" /\ ts_args.day = "29" /\ ts_args.year = 2024
    /\ ts_args.time = "23:59:59"
    /\ ts_result = [kind |-> "str", value |-> "2024-02-29 23:59:59"]

\* C7: classify_and_extract returns the result of the first rule that
\* matches, in the order failed-password, invalid-user, PAM, with the
\* username and address that rule captured.
FirstRuleWins ==
    pc = "done" =>
        /\ FAILED_PASSWORD_RE(message).kind = "match" =>
               /\ details.kind = "dict"
               /\ details.event_type \in {"FAILED_LOGIN", "FAILED_LOGIN_INVALID_USER"}
               /\ details.username = FAILED_PASSWORD_RE(message).username
               /\ details.ip_address = FAILED_PASSWORD_RE(message).ip
        /\ /\ FAILED_PASSWORD_RE(message).kind # "match"
           /\ INVALID_USER_RE(message).kind = "match"
           => /\ details.kind = "dict"
              /\ details.event_type = "INVALID_USER"
              /\ details.username = INVALID_USER_RE(message).username
              /\ details.ip_address = INVALID_USER_RE(message).ip
        /\ /\ FAILED_PASSWORD_RE(message).kind # "match"
           /\ INVALID_USER_RE(message).kind # "match"
           /\ PAM_AUTH_FAILURE_RE(message).kind = "match"
           => /\ details.kind = "dict"
              /\ details.event_type = "PAM_AUTH_FAILURE"
              /\ details.username = PAM_AUTH_FAILURE_RE(message).username
              /\ details.ip_address = PAM_AUTH_FAILURE_RE(message).ip

\* a message that the failed-password rule and the invalid-user rule match
\* with different users has been classified by the failed-password rule
BothRulesMatch ==
    /\ pc = "done"
    /\ FAILED_PASSWORD_RE(message).kind = "match"
    /\ INVALID_USER_RE(message).kind = "match"
    /\ FAILED_PASSWORD_RE(message).username # INVALID_USER_RE(message).username
    /\ details.kind = "dict"
    /\ details.event_type = "FAILED_LOGIN"

\* the line of the example: the prefix, one space and the wrapped message
RepetitionExampleLine ==
    "Jan 15 10:23:45 host" \o " "
        \o "message repeated 5 times: [Failed password for invalid user admin from 10.0.0.9]"

\* C8: the example line, parsed with fallback year 2024, gives the fields of
\* the inner message and repetition_count 5; a line whose message is a
\* wrapper with a count that converts gives that count.
RepetitionUnwrapped ==
    pc = "done" =>
        /\ line = RepetitionExampleLine /\ year = 2024 =>
               /\ result.kind = "record"
               /\ result.timestamp = "2024-01-15 10:23:45"
               /\ result.ip_address = "10.0.0.9"
               /\ result.username = "admin"
               /\ result.event_type = "FAILED_LOGIN_INVALID_USER"
               /\ result.repetition_count = 5
        /\ /\ result.kind = "record"
           /\ HasWrapper(line)
           /\ PyInt(REPEATED_WRAPPER_RE(MessageOfLine(line)).group1).kind = "int"
           => result.repetition_count =
                  PyInt(REPEATED_WRAPPER_RE(MessageOfLine(line)).group1).value

\* the records parse_line gives for the first n lines of f, in their order
RECURSIVE RecordsOfLines(_, _, _)
RecordsOfLines(f, n, y) ==
    IF n = 0 THEN <<>>
    ELSE LET rec == parse_line(f[n], y)
         IN  IF rec.kind = "record" THEN Append(RecordsOfLines(f, n - 1, y), rec)
             ELSE RecordsOfLines(f, n - 1, y)

\* C9: what parse_log_file has yielded is the records parse_line gives for
\* the lines read so far, in file order and none merged; a second iteration
\* over the unchanged file with the same year yields what the first did.
YieldsPerLineRecords ==
    /\ gen = "created" => records = <<>>
    /\ gen = "open" => records = RecordsOfLines(file, pos, year)
    /\ gen = "closed" /\ pc = "done" =>
           /\ pos = Len(file)
           /\ records = RecordsOfLines(file, Len(file), year)
           /\ previous.kind = "run" /\ previous.year = year
              => records = previous.records

\* a file with the same line twice has been iterated twice with the same
\* year, and each iteration yielded the record of that line twice
SameLineTwiceTwice ==
    /\ gen = "closed" /\ pc = "done"
    /\ previous.kind = "run" /\ previous.year = year
    /\ Len(file) = 3 /\ file[1] = file[3] /\ file[1] # file[2]
    /\ Len(records) = 2 /\ records[1] = records[2]
    /\ previous.records = records

\* C10: parse_line returns a record or None and raises nothing, whatever the
\* line: no prefix, a timestamp that does not resolve, a repetition count
\* int() does not convert, a message no rule classifies.
NoLineLevelException ==
    pc = "done" => result.kind \in {"record", "None"}

\* a line whose repetition count has more digits than int() converts gave a
\* record with the count 1
OverlongCountAbsorbed ==
    /\ pc = "done"
    /\ line \in OverlongCountLines
    /\ result.kind = "record"
    /\ result.repetition_count = 1

\* C11: when the input file cannot be opened, the output CSV is neither
\* created nor truncated nor overwritten: no step of such a run changes it.
OutputUntouchedWhenInputUnreadable == [][~readable => csv' = csv]_vars

HeaderText == "timestamp,ip_address,username,event_type,repetition_count,raw_message\r\n"

\* the number of places of s where the text sub stands
Occurrences(s, sub) == Cardinality({i \in 1..Len(s) : LitAt(s, i, sub)})

NoLineYieldsRecord == RecordsOfLines(file, Len(file), year) = <<>>

\* C13: a run over an openable file no line of which yields a record ends
\* without error, its output being exactly the header row; in every run the
\* output starts with the header row, which stands in it once.
HeaderOnlyWhenNoRecords ==
    /\ wpc # "called" =>
           /\ LitAt(csv.text, 1, HeaderText)
           /\ Occurrences(csv.text, HeaderText) = 1
    /\ readable /\ wpc = "failed" => ~NoLineYieldsRecord
    /\ wpc \in {"done", "loaded"} =>
           /\ error = NoneValue
           /\ csv.text # HeaderText => ~NoLineYieldsRecord

\* a run over lines none of which is an authentication event has ended
NoEventRunDone ==
    /\ wpc = "done" /\ Len(file) = 2 /\ NoLineYieldsRecord
    /\ file[2] = "Jan 15 10:25:00 host sshd[1]: Accepted password for root from 10.0.0.9\n"

\* a record as a row of a table: its strings as they are, its count an integer
RowOfRecord(rec) ==
    <<[kind |-> "str", value |-> rec.timestamp],
      [kind |-> "str", value |-> rec.ip_address],
      [kind |-> "str", value |-> rec.username],
      [kind |-> "str", value |-> rec.event_type],
      [kind |-> "int", value |-> rec.repetition_count],
      [kind |-> "str", value |-> rec.raw_message]>>

TableOfRecords(recs) ==
    [kind |-> "frame",
     columns |-> <<"timestamp", "ip_address", "username", "event_type",
                   "repetition_count", "raw_message">>,
     rows |-> [k \in 1..Len(recs) |-> RowOfRecord(recs[k])]]

\* C14: the table pd.read_csv loads from what write_csv wrote holds the
\* records written: as many rows, in their order, every string field the
\* string written and repetition_count the integer written.
RoundTripIdentical == wpc = "loaded" => table = TableOfRecords(records)

\* C15: the input handle is closed as soon as the iteration is over, be it
\* exhausted, ended by an error, or abandoned by a consumer that pulls no
\* more: no run has ended with the handle still open.
HandleClosedWhenRunEnds == wpc \in {"done", "loaded", "failed"} => gen = "closed"

\* C16: without a fallback year, the year of a run is the year of the wall
\* clock when parse_log_file was called, and every record of the run carries
\* the one year of the run.
YearOfTheCall ==
    gen = "open" =>
        /\ default_year = NoneValue => year = called_at
        /\ \A k \in 1..Len(records) :
               SubSeq(records[k].timestamp, 1, 4) = FormatInt(year)

\* bytes that stand in no sequence of UTF-8
NeverValid == {192, 193} \cup 245..255

ReplacementMarker == "�"

Shows(s, c) == \E k \in 1..Len(s) : Ch(s, k) = c

\* C17: a line holding bytes that are not UTF-8 does not raise, and the
\* decoded line, and the raw_message of its record, show a replacement
\* character for them.
InvalidBytesReplaced ==
    /\ result.kind # "raise"
    /\ pc \in {"decoded", "done"} /\ (\E k \in 1..Len(raw) : raw[k] \in NeverValid)
           => Shows(line, ReplacementMarker)
    /\ pc = "done" /\ (\E k \in 1..Len(raw) : raw[k] \in NeverValid)
           /\ result.kind = "record"
           => Shows(result.raw_message, ReplacementMarker)

\* the text of the rows of the first n records
RECURSIVE RowsText(_, _)
RowsText(recs, n) ==
    IF n = 0 THEN "" ELSE RowsText(recs, n - 1) \o CsvRow(recs[n])

\* C20: nothing is read before the consumer asks; the lines read so far have
\* all been processed, in their order; at most one record yielded is not yet
\* written, the record of the line read last, and the output holds the rows
\* of the records before it: no line is read while a record waits.
OneLineAtATime ==
    /\ wpc = "called" => gen = "created"
    /\ gen = "created" => pos = 0 /\ records = <<>>
    /\ wpc # "called" /\ gen # "created" =>
           /\ records = RecordsOfLines(file, pos, year)
           /\ csv.rows <= Len(records) /\ Len(records) <= csv.rows + 1
           /\ csv.text = HeaderText \o RowsText(records, csv.rows)
           /\ Len(records) = csv.rows + 1 =>
                  /\ pos >= 1
                  /\ records[Len(records)] = parse_line(file[pos], year)

\* a second record has been yielded, the first being written
SecondRecordAfterFirstRow ==
    /\ wpc = "iterating" /\ csv.rows = 1 /\ Len(records) = 2 /\ pos = 3

\* the tables a write_csv that returned has left: that of an earlier log, and
\* that of the log as it is
CompleteTexts ==
    {OldTable.text,
     HeaderText \o RowsText(RecordsOfLines(file, Len(file), clock),
                            Len(RecordsOfLines(file, Len(file), clock)))}

\* C12: a CSV that a failed write_csv left partly written is never taken
\* for the table: whenever a startup of the service has loaded the CSV as the
\* event table, the CSV is one a write_csv that returned has written.
PartialNeverLoaded == svc.source = "csv" => csv.text \in CompleteTexts

\* C19: after the server has answered /health with "healthy", its answer to
\* a POST /api/query is a success that echoes the message sent and carries a
\* string as llm_response, whatever startup has left.
QuerySucceedsOnceHealthy ==
    svc.healthy /\ svc.response.endpoint = "/api/query" =>
        /\ svc.response.status_code = 200
        /\ svc.response.status = "success"
        /\ svc.response.received_message = svc.response.request
        /\ svc.response.llm_response.kind = "str"

\* C18: the tool is read-only: every statement that has reached the
\* connection is a SELECT, the connection holds the tables registered and
\* no other, and a text that does not start with SELECT is answered with the
\* rejection.
OnlySelectExecuted ==
    /\ \A k \in 1..Len(sql.executed) : LitAtIgnoreCase(sql.executed[k], 1, "select")
    /\ sql.relations = {"ssh"}
    /\ sql.calls > 0 /\ ~LitAtIgnoreCase(sql.query, 1, "select")
           => sql.answer = [kind |-> "str",
                            value |-> "SQL error: Only SELECT queries are allowed."]

\* places of the remainder where ": " stands
SeparatorPlaces(rest) ==
    {i \in 1..Len(rest) - 1 : Ch(rest, i) = ":" /\ Ch(rest, i + 1) = " "}

\* the text after the first ": " of the remainder, the remainder without one
BodyOf(rest) ==
    IF SeparatorPlaces(rest) = {} THEN rest
    ELSE SubSeq(rest, Min(SeparatorPlaces(rest)) + 2, Len(rest))

\* what the expander and the classifier make of a message body: nothing, or
\* the classified fields and the repetition count
Outcome(body) ==
    LET rm == REPEATED_WRAPPER_RE(body)
        det == classify_and_extract(IF rm.kind = "match" THEN rm.group2 ELSE body)
        count == IF rm.kind = "match" THEN RepetitionCount(rm.group1)
                 ELSE [kind |-> "int", value |-> 1]
    IN  IF det.kind = "None" THEN NoneValue
        ELSE [kind |-> "record",
              event_type |-> det.event_type,
              username |-> det.username,
              ip_address |-> det.ip_address,
              repetition_count |-> count.value]

\* the classified fields and the repetition count of a result
OutcomeOf(res) ==
    IF res.kind = "record"
    THEN [kind |-> "record",
          event_type |-> res.event_type,
          username |-> res.username,
          ip_address |-> res.ip_address,
          repetition_count |-> res.repetition_count]
    ELSE res

\* the remainder begins with the text of an event, no host or process before it
Untagged(rest) ==
    \/ LitAt(rest, 1, "Failed password for ")
    \/ LitAt(rest, 1, "Invalid user ")
    \/ LitAt(rest, 1, "message repeated ")

\* a parsed line whose prefix matched and whose timestamp resolved
BodyReached ==
    /\ pc = "done"
    /\ split_prefix_and_message(line).kind = "dict"
    /\ ~Unresolvable(split_prefix_and_message(line), year)

\* C21: the classified fields and the repetition count of a line are those of
\* the text after the first ": " of its remainder, of the whole remainder when
\* it has no ": "; so a remainder without ": " that classifies gives a record,
\* and nothing before the first ": " has a part in the outcome.
BodyAfterFirstSeparator ==
    BodyReached =>
        /\ OutcomeOf(result) = Outcome(BodyOf(split_prefix_and_message(line).rest))
        /\ (/\ SeparatorPlaces(split_prefix_and_message(line).rest) = {}
            /\ Outcome(split_prefix_and_message(line).rest).kind = "record")
           => result.kind = "record"

\* an untagged line without ": " gave a record
UntaggedLineRecorded ==
    /\ BodyReached
    /\ Untagged(split_prefix_and_message(line).rest)
    /\ SeparatorPlaces(split_prefix_and_message(line).rest) = {}
    /\ result.kind = "record"

\* C21 as stated: every untagged line whose remainder classifies gives a record
UntaggedClassifiableRecorded ==
    (/\ BodyReached
     /\ Untagged(split_prefix_and_message(line).rest)
     /\ Outcome(split_prefix_and_message(line).rest).kind = "record")
    => result.kind = "record"

\* a step of the service that is a startup
StartupStep == svc.phase = "down" /\ svc'.phase = "up"

\* the log is there, and the table is not or is strictly older than the log
StaleOrMissing ==
    IF ~svc.log_exists THEN FALSE
    ELSE IF csv.kind = "absent" THEN TRUE
    ELSE csv.mtime < svc.log_mtime

\* the six columns of the table, in their order
SixColumns ==
    <<"timestamp", "ip_address", "username", "event_type", "repetition_count",
      "raw_message">>

\* C22: a startup writes the table anew if and only if the log exists and the
\* table either does not exist or was modified strictly before the log; without
\* a log an existing table is loaded as it is, without log and table the
\* service holds an empty table of the six columns, and a log whose table is at
\* least as new is never parsed again.
RegeneratedIffStale ==
    [][StartupStep =>
        /\ (csv'.kind = "file" /\ csv'.mtime = svc.now) <=> StaleOrMissing
        /\ ~StaleOrMissing => csv' = csv
        /\ (~svc.log_exists /\ csv.kind = "file" /\ read_csv(csv.text).kind = "frame")
               => table' = read_csv(csv.text)
        /\ (~svc.log_exists /\ csv.kind = "absent")
               => table' = [kind |-> "frame", columns |-> SixColumns, rows |-> <<>>]
      ]_vars

\* the service is up on a table as old as its log, which no startup rewrote
SameAgeTableKept ==
    /\ svc.phase = "up"
    /\ svc.log_exists
    /\ csv.kind = "file"
    /\ csv.mtime = svc.log_mtime
    /\ svc.source = "csv"

\* the table the startup has to load from csv_path as the startup left it
TableToLoad(f) ==
    IF f.kind = "file" THEN read_csv(f.text)
    ELSE [kind |-> "frame", columns |-> SixColumns, rows |-> <<>>]

\* the startup regenerated and the regeneration did not write every record
RegenerationCutShort ==
    /\ StaleOrMissing
    /\ csv'.rows < Len(RecordsOfLines(file, Len(file), clock))

\* what a startup leaves in app.state
StartupLeavesStateDefined ==
    StartupStep =>
        /\ table'.kind = "frame"
        /\ svc'.agent \in {NoneValue, [kind |-> "agent"]}
        /\ (~readable /\ StaleOrMissing) \/ RegenerationCutShort
               \/ TableToLoad(csv').kind = "raise"
           => /\ table' = [kind |-> "frame", columns |-> SixColumns, rows |-> <<>>]
              /\ svc'.agent = NoneValue
        /\ ~((~readable /\ StaleOrMissing) \/ RegenerationCutShort
               \/ TableToLoad(csv').kind = "raise")
           => table' = TableToLoad(csv')

\* the answer to a query of a service that has no agent
RefusedWithoutAgent ==
    (/\ svc.phase = "up"
     /\ svc.agent = NoneValue
     /\ svc.response # NoneValue
     /\ svc.response.endpoint = "/api/query")
    => /\ svc.response.status_code = 500
       /\ "status" \notin DOMAIN svc.response
       /\ "llm_response" \notin DOMAIN svc.response

\* C23: a startup raises nothing and leaves a table and an agent, the agent
\* possibly None: when generating or loading the CSV fails, the table is the
\* empty one of the six columns and the agent is None; when only building the
\* agent fails, the table is the one loaded and the agent is None; and a
\* service whose agent is None answers every POST /api/query with status 500
\* and no success payload.
StartupNeverFailsAndRefuses ==
    [][StartupLeavesStateDefined]_vars /\ []RefusedWithoutAgent

\* the agent could not be built over a loaded table, and a query was refused
RefusedOverLoadedTable ==
    /\ svc.phase = "up"
    /\ svc.agent = NoneValue
    /\ svc.source = "csv"
    /\ table.kind = "frame" /\ Len(table.rows) > 0
    /\ svc.response # NoneValue
    /\ svc.response.endpoint = "/api/query"
    /\ svc.response.status_code = 500

====
